---- MODULE Spec2Model ----
(***************************************************************************)
(* A model of blockstack_client/storage.py: the driver registry, the       *)
(* immutable and mutable storage routers and the signed-envelope codec.    *)
(*                                                                         *)
(* Strings are sequences of tokens.  Every token is a record of one shape  *)
(* (Tok), so that any two pieces of text can be compared.  A storage        *)
(* driver is a Python module object: the model names the objects d1..d3,    *)
(* gives each its __name__, and lets the environment choose, per call, how  *)
(* each driver answers (capability missing, raises, returns a value).       *)
(***************************************************************************)
EXTENDS Integers, Sequences, FiniteSets, TLC

VARIABLES
    storage_handlers,   \* the global list of registered driver objects
    immutable_store,    \* per driver: the set of <<hash, text>> it holds
    mutable_store,      \* per driver: the set of <<fq_data_id, text>> it holds
    last,               \* the call the client made last and what it returned
    put_done            \* the last immutable write: its payload and result

vars == <<storage_handlers, immutable_store, mutable_store, last, put_done>>

\* -------------------------------------------------------------- bounds

\* The registry holds at most this many drivers.
MaxHandlers == 2

\* A driver whitelist (drivers=, use_only=, required=) names at most this many.
MaxNames == 2

\* A name or a data id is made of at most this many pieces of text.
MaxPieces == 3

\* get_next_keypair looks at no more than this many child addresses.
MaxCount == 3

\* ---------------------------------------------------------------- text

\* Python's None, where the value beside it is a string.
None == "None"

\* A token of text: c is its class or its characters; k, m, s and n are
\* used by key, hash and signature tokens and are empty otherwise.
Tok(c) == [c |-> c, k |-> "", m |-> <<>>, s |-> 0, n |-> 0]

Range(f) == {f[i] : i \in DOMAIN f}

\* ---------------------------------------------------------------- JSON

\* The keys a payload may use, in the order sort_keys=True emits them.
SortedKeys == <<"a", "k">>

Digits == {"1", "2", "5"}

\* A JSON number as text: an integer, or a decimal with a '.' in it.
JsonNumbers == {<<Tok("1")>>, <<Tok("2")>>, <<Tok("1"), Tok("."), Tok("5")>>}

\* A payload is a dict: a set of <<key, value text>> pairs, one per key.
PayloadK1 == {<<"k", <<Tok("1")>>>>}
PayloadA15K2 == {<<"a", <<Tok("1"), Tok("."), Tok("5")>>>>, <<"k", <<Tok("2")>>>>}
Payloads == {PayloadK1, PayloadA15K2}

HasKey(p, key) == \E kv \in p : kv[1] = key
ValueOf(p, key) == (CHOOSE kv \in p : kv[1] = key)[2]

\* json.dumps(data_json, sort_keys=True): the members in key order.
RECURSIVE json_members(_, _, _)
json_members(p, i, first) ==
    IF i > Len(SortedKeys) THEN <<>>
    ELSE IF HasKey(p, SortedKeys[i])
         THEN (IF first THEN <<>> ELSE <<Tok(",")>>)
              \o <<Tok(SortedKeys[i]), Tok(":")>>
              \o ValueOf(p, SortedKeys[i])
              \o json_members(p, i + 1, FALSE)
         ELSE json_members(p, i + 1, first)

json_dumps(p) == <<Tok("{")>> \o json_members(p, 1, TRUE) \o <<Tok("}")>>

IsJsonNumber(v) ==
    \/ Len(v) = 1 /\ v[1].c \in Digits
    \/ Len(v) = 3 /\ v[1].c \in Digits /\ v[2] = Tok(".") /\ v[3].c \in Digits

\* The index of the first token equal to t at or after i; 0 when there is none.
RECURSIVE IndexOf(_, _, _)
IndexOf(s, t, i) ==
    IF i > Len(s) THEN 0
    ELSE IF s[i] = t THEN i
    ELSE IndexOf(s, t, i + 1)

\* The members of a JSON object, parsed left to right.  A later member
\* replaces an earlier one with the same key, as a Python dict does.
RECURSIVE json_parse_members(_, _)
json_parse_members(s, acc) ==
    IF Len(s) < 3 \/ s[1].c \notin Range(SortedKeys) \/ s[2] # Tok(":")
    THEN [ok |-> FALSE, val |-> {}]
    ELSE LET comma == IndexOf(s, Tok(","), 3)
             stop == IF comma = 0 THEN Len(s) + 1 ELSE comma
             value == SubSeq(s, 3, stop - 1)
             acc2 == {kv \in acc : kv[1] # s[1].c} \cup {<<s[1].c, value>>}
         IN  IF ~IsJsonNumber(value) THEN [ok |-> FALSE, val |-> {}]
             ELSE IF comma = 0 THEN [ok |-> TRUE, val |-> acc2]
             ELSE json_parse_members(SubSeq(s, comma + 1, Len(s)), acc2)

\* json.loads(text) for the texts of the model: ok is FALSE where Python
\* raises ValueError.
json_loads(text) ==
    IF Len(text) < 2 \/ text[1] # Tok("{") \/ text[Len(text)] # Tok("}")
    THEN [ok |-> FALSE, val |-> {}]
    ELSE IF Len(text) = 2 THEN [ok |-> TRUE, val |-> {}]
    ELSE json_parse_members(SubSeq(text, 2, Len(text) - 1), {})

\* ------------------------------------------------------------- hashing

\* hashlib.sha256 and pybitcoin.hex_hash160: a digest is a token that names
\* the function and the text, so that digests differ exactly when either does.
get_data_hash(data_txt) == [c |-> "sha256", k |-> "", m |-> data_txt, s |-> 0, n |-> 0]

get_blockchain_compat_hash(data_txt) ==
    [c |-> "hash160", k |-> "", m |-> data_txt, s |-> 0, n |-> 0]

HashFuncs == {"get_data_hash", "get_blockchain_compat_hash"}

\* hash_func(data), for the hash_func the caller passed by name.
ApplyHash(hash_func, data) ==
    IF hash_func = "get_data_hash" THEN get_data_hash(data)
    ELSE get_blockchain_compat_hash(data)

\* --------------------------------------------------------------- texts

\* An announcement: text that is not JSON.
AnnouncementText == <<Tok("hello")>>

\* What immutable storage holds in the model.
ImmutableTexts == {json_dumps(p) : p \in Payloads} \cup {AnnouncementText}

\* ------------------------------------------------------------- drivers

\* The driver objects of the world.  d1 and d3 are two objects whose
\* __name__ is the same.
Drivers == {"d1", "d2", "d3"}

HandlerName(d) == IF d = "d2" THEN "b" ELSE "a"

DriverNames == {HandlerName(d) : d \in Drivers}

\* Sequences over S of length at most n.
SeqsUpTo(S, n) == UNION {[1..m -> S] : m \in 0..n}

\* An optional list of driver names: given is FALSE for None.
NoNames == [given |-> FALSE, names |-> <<>>]
NameLists == {[given |-> TRUE, names |-> ns] : ns \in SeqsUpTo(DriverNames, MaxNames)}

\* A driver's answer to one call: kind is "nocap" (the module has no such
\* method), "raise", "none" (it returns None), "data" (it returns the text
\* data) or "stored" (it returns what its store holds, or None).
Answer(kind) == [kind |-> kind, data |-> <<>>]
DataAnswer(text) == [kind |-> "data", data |-> text]

\* The data URL a caller may pass as a hint.
DataUrl == "http://hint"

\* The client is between two calls.
Idle == [op |-> "idle"]

\* ------------------------------------------------------------ registry

\* A slip: the driver is appended whether or not the list holds it.
register_storage_appends(handlers, storage_impl) == Append(handlers, storage_impl)

\* register_storage: append the driver object unless the list holds it.
register_storage(handlers, storage_impl) ==
    IF storage_impl \in Range(handlers) THEN handlers
    ELSE Append(handlers, storage_impl)

\* The methods register_storage looks for in a driver.
expected_methods ==
    {"make_mutable_url", "get_immutable_handler", "get_mutable_handler",
     "put_immutable_handler", "put_mutable_handler", "delete_immutable_handler",
     "delete_mutable_handler"}

\* What register_storage returns for a driver that has the given methods:
\* a missing method is logged, and the result is True all the same.
register_storage_result(handlers, storage_impl, methods) == TRUE

\* get_storage_handlers: the list itself.
get_storage_handlers(handlers) == handlers

\* lookup_storage_handler: the first registered driver with that name.
lookup_storage_handler(handlers, handler_name) ==
    LET named == SelectSeq(handlers, LAMBDA h : HandlerName(h) = handler_name)
    IN  IF named = <<>> THEN None ELSE Head(named)

\* ------------------------------------------------- get_immutable_data

\* The registered drivers a whitelist selects: for each name of the
\* whitelist in turn, the registered drivers with that name.
RECURSIVE whitelisted_handlers(_, _, _)
whitelisted_handlers(handlers, names, i) ==
    IF i > Len(names) THEN <<>>
    ELSE SelectSeq(handlers, LAMBDA h : HandlerName(h) = names[i])
         \o whitelisted_handlers(handlers, names, i + 1)

\* A slip: the whitelisted drivers are appended to the registry itself.
storage_handlers_after_aliased(handlers, drivers) ==
    IF ~drivers.given THEN handlers
    ELSE handlers \o whitelisted_handlers(handlers, drivers.names, 1)

\* The registry after the drivers to use were picked: with no whitelist
\* handlers_to_use is the registry itself, which the loops only read; with
\* a whitelist the drivers are appended to a new list.
storage_handlers_after(handlers, drivers) == handlers

handlers_to_use(handlers, drivers) ==
    IF ~drivers.given THEN handlers
    ELSE whitelisted_handlers(handlers, drivers.names, 1)

\* What a driver returns from get_immutable_handler(data_hash): env.store
\* is the driver's store, env.drv its answer to this call.
StoredImmutable(store, data_hash) ==
    IF \E e \in store : e[1] = data_hash
    THEN DataAnswer((CHOOSE e \in store : e[1] = data_hash)[2])
    ELSE Answer("none")

Fetched(env, handler, data_url, data_hash) ==
    IF handler = data_url THEN env.url
    ELSE IF env.drv[handler].kind = "stored"
         THEN StoredImmutable(env.store[handler], data_hash)
         ELSE env.drv[handler]

\* A slip: the data is taken without the check of its hash.
hash_matches_unchecked(hash_func, data, data_hash) == TRUE

\* The data passes the check of its hash.
hash_matches(hash_func, data, data_hash) == ApplyHash(hash_func, data) = data_hash

NoResult == [kind |-> "None", val |-> {}]

\* The loop over [data_url] + handlers_to_use.  calls lists who was
\* contacted, in order; raw is the text the result was read from.
RECURSIVE get_immutable_loop(_, _, _, _, _, _, _, _)
get_immutable_loop(cands, i, data_hash, data_url, hash_func, deserialize, env, calls) ==
    IF i > Len(cands) THEN [result |-> NoResult, raw |-> <<>>, calls |-> calls]
    ELSE
    LET handler == cands[i]
        next(cs) == get_immutable_loop(cands, i + 1, data_hash, data_url,
                                       hash_func, deserialize, env, cs)
        got == Fetched(env, handler, data_url, data_hash)
        called == Append(calls, handler)
    IN  IF handler = None THEN next(calls)
        ELSE IF handler # data_url /\ env.drv[handler].kind = "nocap" THEN next(calls)
        ELSE IF got.kind # "data" THEN next(called)
        ELSE IF ~hash_matches(hash_func, got.data, data_hash) THEN next(called)
        ELSE IF ~deserialize
             THEN [result |-> [kind |-> "text", val |-> got.data],
                   raw |-> got.data, calls |-> called]
        ELSE IF ~json_loads(got.data).ok THEN next(called)
        ELSE [result |-> [kind |-> "json", val |-> json_loads(got.data).val],
              raw |-> got.data, calls |-> called]

get_immutable_data(handlers, data_hash, data_url, hash_func, deserialize, drivers, env) ==
    IF Len(handlers) = 0
    THEN [result |-> NoResult, raw |-> <<>>, calls |-> <<>>]
    ELSE get_immutable_loop(<<data_url>> \o handlers_to_use(handlers, drivers), 1,
                            data_hash, data_url, hash_func, deserialize, env, <<>>)

\* ------------------------------------------------- put_immutable_data

\* None, where the value beside it is a token (a hash).
NoneTok == Tok("None")

\* serialize_immutable_data: json.dumps(data_json, sort_keys=True).
serialize_immutable_data(data_json) == json_dumps(data_json)

\* The hash the write is filed under: the caller's, or that of the text.
put_immutable_hash(data_hash, data_text) ==
    IF data_hash = NoneTok THEN get_data_hash(data_text) ELSE data_hash

\* A slip: no driver is taken to be required.
is_required_never(handler, required) == FALSE

\* The driver's name is in the caller's required list.
is_required(handler, required) == HandlerName(handler) \in required

\* A slip: the hash is returned whether or not any driver accepted.
put_immutable_result_always(successes, data_hash) == data_hash

\* What the write returns once every driver was visited.
put_immutable_result(successes, data_hash) ==
    IF successes = 0 THEN NoneTok ELSE data_hash

\* A slip: a fatal failure returns what the drivers visited so far add up to.
put_immutable_failed_partial(successes, data_hash) ==
    IF successes = 0 THEN NoneTok ELSE data_hash

\* What the write returns when a required driver fails it: None.
put_immutable_failed(successes, data_hash) == NoneTok

\* What the write does with a driver that returned false: a miss.
put_immutable_false_is_fatal(handler, required) == FALSE

\* A slip: what the driver accepted is not kept.
StoreAfterPut_lost(store, key, text) == store

\* A driver's store after it accepted <<key, text>>.
StoreAfterPut(store, key, text) == {e \in store : e[1] # key} \cup {<<key, text>>}

\* The loop over storage_handlers.  drv[h] is how driver h answers
\* put_immutable_handler: "nocap", "raise", "false" or "true" (it keeps the
\* text and returns True).
RECURSIVE put_immutable_loop(_, _, _, _, _, _, _, _, _)
put_immutable_loop(handlers, i, data_hash, data_text, required, drv, successes, calls, store) ==
    IF i > Len(handlers)
    THEN [result |-> put_immutable_result(successes, data_hash),
          calls |-> calls, store |-> store]
    ELSE
    LET handler == handlers[i]
        called == Append(calls, [who |-> handler, key |-> data_hash, text |-> data_text])
        next(n, cs, st) == put_immutable_loop(handlers, i + 1, data_hash, data_text,
                                              required, drv, n, cs, st)
        fatal(cs) == [result |-> put_immutable_failed(successes, data_hash),
                      calls |-> cs, store |-> store]
    IN  IF drv[handler] = "nocap"
        THEN IF ~is_required(handler, required) THEN next(successes, calls, store)
             ELSE fatal(calls)
        ELSE IF drv[handler] = "raise"
        THEN IF ~is_required(handler, required) THEN next(successes, called, store)
             ELSE fatal(called)
        ELSE IF drv[handler] = "false"
        THEN IF put_immutable_false_is_fatal(handler, required) THEN fatal(called)
             ELSE next(successes, called, store)
        ELSE next(successes + 1, called,
                  [store EXCEPT ![handler] = StoreAfterPut(@, data_hash, data_text)])

\* put_immutable_data(data_json, txid, data_hash, data_text, required):
\* data_json is <<payload>> or <<>> for None, data_text likewise.
put_immutable_data(handlers, data_json, data_hash, data_text, required, drv, store) ==
    LET text == IF data_text = <<>> THEN serialize_immutable_data(data_json[1])
                ELSE data_text[1]
    IN  put_immutable_loop(handlers, 1, put_immutable_hash(data_hash, text), text,
                           required, drv, 0, <<>>, store)

\* ---------------------------------------------------------------- keys

\* Private keys as hex: k1 and k2, k1 with the trailing compression flag
\* 01, and a multi-signature key bundle.
SingleSigKeys == {"k1", "k1_01", "k2"}
MultiSigKey == "multisig"

\* keys.is_singlesig.
is_singlesig(privatekey_hex) == privatekey_hex \in SingleSigKeys

\* The 64 hex digits of the key, without the compression flag.
strip_compression_flag(privatekey_hex) ==
    IF privatekey_hex = "k1_01" THEN "k1" ELSE privatekey_hex

\* Public keys as hex: 04.. is uncompressed (130 digits), 02.. compressed.
UncompressedPubKeys == {"04k1", "04k2"}
CompressedPubKeys == {"02k1", "02k2"}

\* keys.get_pubkey_hex: the public key of a private key, compressed when
\* the private key carries the flag.
get_pubkey_hex(privatekey_hex) ==
    CASE privatekey_hex = "k1" -> "04k1"
      [] privatekey_hex = "k1_01" -> "02k1"
      [] OTHER -> "04k2"

\* keylib.key_formatting.get_pubkey_format and decompress.
is_compressed(pubkey_hex) == pubkey_hex \in CompressedPubKeys

\* A slip: the key is used in the form it came in.
decompress_skipped(pubkey_hex) == pubkey_hex

decompress(pubkey_hex) ==
    CASE pubkey_hex = "02k1" -> "04k1"
      [] pubkey_hex = "02k2" -> "04k2"
      [] OTHER -> pubkey_hex

\* The private key an uncompressed public key belongs to.
secret_of_pubkey(pubkey_hex) ==
    CASE pubkey_hex = "04k1" -> "k1"
      [] pubkey_hex = "04k2" -> "k2"
      [] OTHER -> "nobody"

\* An address: the version byte and the public key whose hash160 it holds.
NoAddress == [version |-> -1, pubkey |-> ""]

\* keylib.public_key_to_address: the version-0 address of the key as given.
public_key_to_address(pubkey_hex) == [version |-> 0, pubkey |-> pubkey_hex]

\* bin_hash160_to_address(address_to_bin_hash160(a), version_byte=0).
address_version_0(address) == [address EXCEPT !.version = 0]

\* ---------------------------------------------------------- signatures

\* Half of the order of the curve, rounded down: the order is odd.
HalfOrder == 3
CurveOrder == 2 * HalfOrder + 1

\* fastecdsa.ecdsa.sign: the s of the signature, fixed by the data and the key.
ecdsa_sign_s(raw_data, secret) ==
    ((Len(raw_data) + (IF secret = "k1" THEN 0 ELSE 2)) % (CurveOrder - 1)) + 1

\* A slip: the s the library returned is kept as it is.
low_s_skipped(sig_s) == sig_s

\* The step that enforces low s.
low_s(sig_s) == IF sig_s * 2 >= CurveOrder THEN CurveOrder - sig_s ELSE sig_s

\* base64: n counts the layers of encoding a token wears.
b64encode(tok) == [tok EXCEPT !.n = @ + 1]
b64decode(tok) ==
    IF tok.n > 0 THEN [ok |-> TRUE, val |-> [tok EXCEPT !.n = @ - 1]]
    ELSE [ok |-> FALSE, val |-> tok]

\* sign_raw_data: the base64 text of the 64 bytes r || s.
sign_raw_data(raw_data, privatekey_hex) ==
    LET priv == strip_compression_flag(privatekey_hex)
        sig_s == low_s(ecdsa_sign_s(raw_data, priv))
    IN  b64encode([c |-> "sig", k |-> priv, m |-> raw_data, s |-> sig_s, n |-> 0])

\* sign_raw_data from the point where fastecdsa.ecdsa.sign has returned
\* sig_s, whatever s that is.
sign_raw_data_from(raw_data, privatekey_hex, sig_s) ==
    b64encode([c |-> "sig", k |-> strip_compression_flag(privatekey_hex),
               m |-> raw_data, s |-> low_s(sig_s), n |-> 0])

\* fastecdsa.ecdsa.verify: the signature is one of the key over the data.
ecdsa_verify(sig, raw_data, pubkey_hex) ==
    /\ sig.k = secret_of_pubkey(pubkey_hex)
    /\ sig.m = raw_data
    /\ sig.s \in {ecdsa_sign_s(raw_data, sig.k), CurveOrder - ecdsa_sign_s(raw_data, sig.k)}

\* verify_raw_data: "True", "False", or "raise" where an assert or the
\* base64 decoder raises.
verify_raw_data(raw_data, pubkey_hex, sigb64) ==
    LET pubk == IF is_compressed(pubkey_hex) THEN decompress(pubkey_hex) ELSE pubkey_hex
        sig_bin == b64decode(sigb64)
    IN  IF pubk \notin UncompressedPubKeys THEN "raise"
        ELSE IF ~sig_bin.ok THEN "raise"
        ELSE IF sig_bin.val.c # "sig" \/ sig_bin.val.n # 0 THEN "raise"
        ELSE IF ecdsa_verify(sig_bin.val, raw_data, pubk) THEN "True"
        ELSE "False"

\* ----------------------------------------------------------- envelopes

\* blockstack_profiles.sign_token_records([data_json], privatekey_hex), less
\* decodedToken: one signed token that holds the payload as its claim.
sign_token_records(data_json, privatekey_hex) ==
    [c |-> "jwt", k |-> strip_compression_flag(privatekey_hex),
     m |-> json_dumps(data_json), s |-> 0, n |-> 0]

\* serialize_mutable_data: a JSON list of signed tokens for a profile, else
\* bsk2.<pubkey>.<base64 of the signature>.<json text>.
serialize_mutable_data(data_json, privatekey_hex, pubkey_hex, profile) ==
    IF profile
    THEN <<Tok("["), sign_token_records(data_json, privatekey_hex), Tok("]")>>
    ELSE LET data_txt == json_dumps(data_json)
             data_sig == sign_raw_data(data_txt, privatekey_hex)
         IN  <<Tok("bsk2"), Tok("."), Tok(pubkey_hex), Tok("."),
               b64encode(data_sig), Tok(".")>> \o data_txt

\* ------------------------------------------------------------- decoding

\* What a parser returns: the payload, None, or an exception it lets through.
Parsed(payload) == [kind |-> "json", val |-> payload]
ParseNone == [kind |-> "None", val |-> {}]
ParseRaise == [kind |-> "raise", val |-> {}]

\* Strings that re.match('^[0-9a-fA-F]+$') accepts: the public keys, and
\* hex text that is no public key.
HexStrings == UncompressedPubKeys \cup CompressedPubKeys \cup {"abcd"}

\* re.match(schemas.OP_BASE64_PATTERN_SECTION, sig_b64): the field is one
\* piece of base64 text.
matches_base64(field) == Len(field) = 1 /\ field[1].n > 0

\* A slip: the text is parsed whatever the signature check says.
verified_payload_unchecked(data_txt, pubk_hex, sig_bin) ==
    IF json_loads(data_txt).ok THEN [kind |-> "json", val |-> json_loads(data_txt).val]
    ELSE [kind |-> "raise", val |-> {}]

\* json.loads of an envelope's text and the verdict of the signature check
\* on it: the payload when the signature verifies.
verified_payload(data_txt, pubk_hex, sig_bin) ==
    LET v == verify_raw_data(data_txt, pubk_hex, sig_bin)
    IN  IF v = "raise" THEN ParseRaise
        ELSE IF v = "False" THEN ParseNone
        ELSE IF json_loads(data_txt).ok THEN Parsed(json_loads(data_txt).val)
        ELSE ParseRaise

\* parse_mutable_data_v2, on the text after the bsk2. prefix.
parse_mutable_data_v2(mutable_data_json_txt, public_key_hex, public_key_hash) ==
    LET txt == mutable_data_json_txt
        dot1 == IndexOf(txt, Tok("."), 1)
        dot2 == IF dot1 = 0 THEN 0 ELSE IndexOf(txt, Tok("."), dot1 + 1)
        pubk_field == SubSeq(txt, 1, dot1 - 1)
        sig_field == SubSeq(txt, dot1 + 1, dot2 - 1)
        data_txt == SubSeq(txt, dot2 + 1, Len(txt))
        pubk_hex == decompress(pubk_field[1].c)
        sig_bin == b64decode(sig_field[1])
        given_pubkey_hex == decompress(public_key_hex)
        by_key == IF public_key_hex # None /\ given_pubkey_hex = pubk_hex
                  THEN verified_payload(data_txt, pubk_hex, sig_bin.val)
                  ELSE ParseNone
        by_hash == IF public_key_hash # NoAddress
                      /\ public_key_to_address(pubk_hex) = address_version_0(public_key_hash)
                   THEN verified_payload(data_txt, pubk_hex, sig_bin.val)
                   ELSE ParseNone
    IN  IF dot1 = 0 \/ dot2 = 0 THEN ParseNone
        ELSE IF Len(pubk_field) # 1 \/ pubk_field[1].c \notin HexStrings THEN ParseNone
        ELSE IF ~matches_base64(sig_field) THEN ParseNone
        ELSE IF pubk_field[1].c \notin UncompressedPubKeys \cup CompressedPubKeys
             THEN ParseRaise
        ELSE IF ~sig_bin.ok THEN ParseNone
        ELSE IF by_key.kind # "None" THEN by_key
        ELSE by_hash

\* json.loads of a JSON list: the items between the brackets.
json_loads_list(text) ==
    IF Len(text) < 2 \/ text[1] # Tok("[") \/ text[Len(text)] # Tok("]")
    THEN [ok |-> FALSE, val |-> <<>>]
    ELSE [ok |-> TRUE, val |-> SubSeq(text, 2, Len(text) - 1)]

\* blockstack_profiles.get_profile_from_tokens(token_records, key or
\* address): the claims of the tokens signed by that public key (in either
\* form) or by the key of that version-0 address; the empty dict otherwise.
get_profile_from_tokens(token_records, public_key, address) ==
    LET signed(t) ==
            /\ t.c = "jwt"
            /\ \/ public_key # None /\ secret_of_pubkey(decompress(public_key)) = t.k
               \/ /\ address # NoAddress /\ address.version = 0
                  /\ secret_of_pubkey(decompress(address.pubkey)) = t.k
    IN  UNION {json_loads(token_records[i].m).val :
                  i \in {j \in DOMAIN token_records : signed(token_records[j])}}

\* The hash the dispatcher hands to the version 2 parser.
v2_public_key_hash(public_key_hash) == NoAddress

\* The legacy parser: a JSON list of signed tokens.
parse_mutable_data_legacy(mutable_data_json_txt, public_key, public_key_hash) ==
    LET jwt == json_loads_list(mutable_data_json_txt)
        by_key == IF public_key # None
                  THEN get_profile_from_tokens(jwt.val, public_key, NoAddress)
                  ELSE {}
        by_hash == IF public_key_hash # NoAddress
                   THEN get_profile_from_tokens(jwt.val, None,
                                                address_version_0(public_key_hash))
                   ELSE {}
    IN  IF public_key = None /\ public_key_hash = NoAddress THEN ParseRaise
        ELSE IF ~jwt.ok THEN ParseNone
        ELSE IF by_key # {} THEN Parsed(by_key)
        ELSE IF by_hash # {} THEN Parsed(by_hash)
        ELSE ParseNone

\* parse_mutable_data: the version 2 parser for text that starts with
\* bsk2., the legacy parser for the rest.
parse_mutable_data(mutable_data_json_txt, public_key, public_key_hash) ==
    IF Len(mutable_data_json_txt) >= 2
       /\ mutable_data_json_txt[1] = Tok("bsk2") /\ mutable_data_json_txt[2] = Tok(".")
    THEN parse_mutable_data_v2(SubSeq(mutable_data_json_txt, 3, Len(mutable_data_json_txt)),
                               public_key, v2_public_key_hash(public_key_hash))
    ELSE parse_mutable_data_legacy(mutable_data_json_txt, public_key, public_key_hash)

\* ----------------------------------------------------- get_mutable_data

\* The URLs of mutable data.
Urls == {"u1", "u2"}

\* make_mutable_url(fq_data_id) of a driver: d2 files under another URL.
make_mutable_url(handler, fq_data_id) == IF handler = "d2" THEN "u2" ELSE "u1"

\* An optional list of URLs: given is FALSE for None.
NoUrls == [given |-> FALSE, urls |-> <<>>]

\* handles_url of a driver that answers env.handles[handler]: "all", "none"
\* or the one URL it handles.
handles_url(env, handler, url) ==
    env.handles[handler] = "all" \/ env.handles[handler] = url

\* The URLs to try with one driver: kind is "skip" when the driver is
\* passed over, "raise" when handles_url raised.
try_urls_of(env, handler, urls, fq_data_id) ==
    IF ~urls.given
    THEN IF env.make[handler] \in {"nocap", "raise"}
         THEN [kind |-> "skip", urls |-> <<>>]
         ELSE [kind |-> "ok", urls |-> <<make_mutable_url(handler, fq_data_id)>>]
    ELSE IF env.handles[handler] = "nocap" \/ Len(urls.urls) = 0
         THEN [kind |-> "ok", urls |-> <<>>]
         ELSE IF env.handles[handler] = "raise"
         THEN [kind |-> "raise", urls |-> <<>>]
         ELSE [kind |-> "ok",
               urls |-> SelectSeq(urls.urls, LAMBDA u : handles_url(env, handler, u))]

\* The decoding of fetched text: against data_address, then against
\* owner_address when that gave None and an owner address was passed.
decode_fetched(data_json, data_pubkey, data_address, owner_address) ==
    LET data == parse_mutable_data(data_json, data_pubkey, data_address)
    IN  IF data.kind = "None" /\ owner_address # NoAddress
        THEN parse_mutable_data(data_json, data_pubkey, owner_address)
        ELSE data

\* What get_mutable_data returns: payload, text (decode off), None, or an
\* exception that reaches the caller.
MutableNone == [kind |-> "None", val |-> {}, raw |-> <<>>]
MutableRaise == [kind |-> "raise", val |-> {}, raw |-> <<>>]

\* The loop over try_urls of one driver.  found is FALSE when every URL
\* was passed over.
RECURSIVE get_mutable_url_loop(_, _, _, _, _, _, _, _, _)
get_mutable_url_loop(env, handler, try_urls, j, data_pubkey, data_address, owner_address, decode, calls) ==
    IF j > Len(try_urls)
    THEN [found |-> FALSE, result |-> MutableNone, calls |-> calls]
    ELSE
    LET url == try_urls[j]
        got == env.get[handler][url]
        called == Append(calls, [who |-> handler, url |-> url])
        data == decode_fetched(got.data, data_pubkey, data_address, owner_address)
        continue == get_mutable_url_loop(env, handler, try_urls, j + 1, data_pubkey,
                                         data_address, owner_address, decode, called)
    IN  IF got.kind \in {"unhandled", "raise", "none"} THEN continue
        ELSE IF ~decode
        THEN [found |-> TRUE, calls |-> called,
              result |-> [kind |-> "text", val |-> {}, raw |-> got.data]]
        ELSE IF data.kind = "None" THEN continue
        ELSE IF data.kind = "raise"
        THEN [found |-> TRUE, result |-> MutableRaise, calls |-> called]
        ELSE [found |-> TRUE, calls |-> called,
              result |-> [kind |-> "json", val |-> data.val, raw |-> got.data]]

\* The loop over handlers_to_use.
RECURSIVE get_mutable_loop(_, _, _, _, _, _, _, _, _, _)
get_mutable_loop(env, handlers, i, fq_data_id, urls, data_pubkey, data_address, owner_address, decode, calls) ==
    IF i > Len(handlers) THEN [result |-> MutableNone, calls |-> calls]
    ELSE
    LET handler == handlers[i]
        try == try_urls_of(env, handler, urls, fq_data_id)
        r == get_mutable_url_loop(env, handler, try.urls, 1, data_pubkey, data_address,
                                  owner_address, decode, calls)
        next(cs) == get_mutable_loop(env, handlers, i + 1, fq_data_id, urls, data_pubkey,
                                     data_address, owner_address, decode, cs)
    IN  IF ~env.has_get[handler] \/ try.kind = "skip" THEN next(calls)
        ELSE IF try.kind = "raise" THEN [result |-> MutableRaise, calls |-> calls]
        ELSE IF r.found THEN [result |-> r.result, calls |-> r.calls]
        ELSE next(r.calls)

\* get_mutable_data(fq_data_id, data_pubkey, urls, data_address,
\* owner_address, drivers, decode).
get_mutable_data(handlers, env, fq_data_id, data_pubkey, urls, data_address, owner_address, drivers, decode) ==
    get_mutable_loop(env, handlers_to_use(handlers, drivers), 1, fq_data_id, urls,
                     data_pubkey, data_address, owner_address, decode, <<>>)

\* --------------------------------------------------- put_mutable_data

\* A fully-qualified data id, name:data_id, as text.
make_fq_data_id(name, data_id) == name \o <<Tok(":")>> \o data_id

\* scripts.is_name_valid, for the names of the model: alice.id and bob.id
\* pass; text with a ':' or another illegal character in it, two names run
\* together, and the empty string do not.
ValidNames == {"alice.id", "bob.id"}
is_name_valid(name) == Len(name) = 1 /\ name[1].c \in ValidNames

\* A slip: text with a ':' in it is taken to be fully qualified.
is_fq_data_id_unchecked(fq_data_id) == IndexOf(fq_data_id, Tok(":"), 1) # 0

\* is_fq_data_id: the text has a ':' and what stands before the first one
\* is a valid name.
is_fq_data_id(fq_data_id) ==
    LET colon == IndexOf(fq_data_id, Tok(":"), 1)
    IN  IF colon = 0 THEN FALSE
        ELSE is_name_valid(SubSeq(fq_data_id, 1, colon - 1))

\* A slip: use_only is not looked at.
skipped_by_use_only_never(handler, use_only) == FALSE

\* The driver is left out by a non-empty use_only list.
skipped_by_use_only(handler, use_only) ==
    use_only # {} /\ HandlerName(handler) \notin use_only

\* What the write returns once every driver was visited.
put_mutable_result(successes) == IF successes > 0 THEN "True" ELSE "False"

\* The loop over storage_handlers.  drv[h] is how driver h answers
\* put_mutable_handler: "nocap", "raise", "false" or "true" (it keeps the
\* text and returns True).
RECURSIVE put_mutable_loop(_, _, _, _, _, _, _, _, _, _)
put_mutable_loop(handlers, i, fq_data_id, serialized_data, required, use_only, drv, successes, calls, store) ==
    IF i > Len(handlers)
    THEN [result |-> put_mutable_result(successes), calls |-> calls, store |-> store]
    ELSE
    LET handler == handlers[i]
        called == Append(calls, [who |-> handler, key |-> fq_data_id,
                                 text |-> serialized_data])
        next(n, cs, st) == put_mutable_loop(handlers, i + 1, fq_data_id, serialized_data,
                                            required, use_only, drv, n, cs, st)
        fatal(cs) == [result |-> None, calls |-> cs, store |-> store]
    IN  IF drv[handler] = "nocap"
        THEN IF ~is_required(handler, required) THEN next(successes, calls, store)
             ELSE fatal(calls)
        ELSE IF skipped_by_use_only(handler, use_only) THEN next(successes, calls, store)
        ELSE IF drv[handler] = "raise"
        THEN IF ~is_required(handler, required) THEN next(successes, called, store)
             ELSE fatal(called)
        ELSE IF drv[handler] = "true"
        THEN next(successes + 1, called,
                  [store EXCEPT ![handler] = StoreAfterPut(@, fq_data_id, serialized_data)])
        ELSE IF ~is_required(handler, required) THEN next(successes, called, store)
        ELSE fatal(called)

\* A slip: the key is used without the check that it is single-signature.
put_mutable_data_any_key(handlers, fq_data_id, data_json, privatekey_hex, profile, required, use_only, drv, store) ==
    put_mutable_loop(handlers, 1, fq_data_id,
                     serialize_mutable_data(data_json, privatekey_hex,
                                            get_pubkey_hex(privatekey_hex), profile),
                     required, use_only, drv, 0, <<>>, store)

\* put_mutable_data(fq_data_id, data_json, privatekey_hex, profile,
\* required, use_only): "True", "False" or None.
put_mutable_data(handlers, fq_data_id, data_json, privatekey_hex, profile, required, use_only, drv, store) ==
    IF ~is_singlesig(privatekey_hex)
    THEN [result |-> "False", calls |-> <<>>, store |-> store]
    ELSE put_mutable_loop(handlers, 1, fq_data_id,
                          serialize_mutable_data(data_json, privatekey_hex,
                                                 get_pubkey_hex(privatekey_hex), profile),
                          required, use_only, drv, 0, <<>>, store)

\* ------------------------------------------------------------- deletes

\* A driver's store after it deleted what it held under key.
StoreAfterDelete(store, key) == {e \in store : e[1] # key}

\* The text a delete signs: "delete:" and what is deleted.
delete_immutable_text(data_hash, txid) == <<Tok("delete:"), data_hash, Tok(txid)>>
delete_mutable_text(fq_data_id) == <<Tok("delete:")>> \o fq_data_id

\* A slip: a handler that returns false ends the delete like one that raises.
delete_handler_failed_on_false(answer) == answer \in {"raise", "false"}

\* What ends a delete with False: a handler that raises.  What the handler
\* returns is not looked at.
delete_handler_failed(answer) == answer = "raise"

\* The loop of delete_immutable_data over storage_handlers.  drv[h] is how
\* driver h answers delete_immutable_handler: "nocap", "raise", "false" (it
\* deletes nothing and returns False) or "true" (it deletes and returns True).
RECURSIVE delete_immutable_loop(_, _, _, _, _, _, _)
delete_immutable_loop(handlers, i, data_hash, sigb64, drv, calls, store) ==
    IF i > Len(handlers) THEN [result |-> TRUE, calls |-> calls, store |-> store]
    ELSE
    LET handler == handlers[i]
        called == Append(calls, [who |-> handler, key |-> data_hash, sig |-> sigb64])
    IN  IF drv[handler] = "nocap"
        THEN delete_immutable_loop(handlers, i + 1, data_hash, sigb64, drv, calls, store)
        ELSE IF delete_handler_failed(drv[handler])
        THEN [result |-> FALSE, calls |-> called, store |-> store]
        ELSE IF drv[handler] = "false"
        THEN delete_immutable_loop(handlers, i + 1, data_hash, sigb64, drv, called, store)
        ELSE delete_immutable_loop(handlers, i + 1, data_hash, sigb64, drv, called,
                 [store EXCEPT ![handler] = StoreAfterDelete(@, data_hash)])

\* delete_immutable_data(data_hash, txid, privkey).
delete_immutable_data(handlers, data_hash, txid, privkey, drv, store) ==
    IF ~is_singlesig(privkey) THEN [result |-> FALSE, calls |-> <<>>, store |-> store]
    ELSE delete_immutable_loop(handlers, 1, data_hash,
             sign_raw_data(delete_immutable_text(data_hash, txid), privkey),
             drv, <<>>, store)

\* A slip: the whitelist is not looked at.
skipped_by_only_use_never(handler, only_use) == FALSE

\* The driver is left out by a non-empty whitelist that does not name it.
skipped_by_only_use(handler, only_use) ==
    only_use # {} /\ HandlerName(handler) \notin only_use

\* The loop of delete_mutable_data over storage_handlers.
RECURSIVE delete_mutable_loop(_, _, _, _, _, _, _, _)
delete_mutable_loop(handlers, i, fq_data_id, sigb64, only_use, drv, calls, store) ==
    IF i > Len(handlers) THEN [result |-> TRUE, calls |-> calls, store |-> store]
    ELSE
    LET handler == handlers[i]
        called == Append(calls, [who |-> handler, key |-> fq_data_id, sig |-> sigb64])
    IN  IF drv[handler] = "nocap" \/ skipped_by_only_use(handler, only_use)
        THEN delete_mutable_loop(handlers, i + 1, fq_data_id, sigb64, only_use, drv,
                                 calls, store)
        ELSE IF delete_handler_failed(drv[handler])
        THEN [result |-> FALSE, calls |-> called, store |-> store]
        ELSE IF drv[handler] = "false"
        THEN delete_mutable_loop(handlers, i + 1, fq_data_id, sigb64, only_use, drv,
                                 called, store)
        ELSE delete_mutable_loop(handlers, i + 1, fq_data_id, sigb64, only_use, drv, called,
                 [store EXCEPT ![handler] = StoreAfterDelete(@, fq_data_id)])

\* delete_mutable_data(fq_data_id, privatekey, only_use): only_use is the
\* set of the names of the whitelist, empty for None.
delete_mutable_data(handlers, fq_data_id, privatekey, only_use, drv, store) ==
    IF ~is_singlesig(privatekey) THEN [result |-> FALSE, calls |-> <<>>, store |-> store]
    ELSE delete_mutable_loop(handlers, 1, fq_data_id,
             sign_raw_data(delete_mutable_text(fq_data_id), privatekey),
             only_use, drv, <<>>, store)

\* ------------------------------------------------------- announcements

\* A slip: the announcement is parsed as JSON like other immutable data.
get_announcement_deserialized(handlers, announcement_hash, env) ==
    get_immutable_data(handlers, announcement_hash, None, "get_blockchain_compat_hash",
                       TRUE, NoNames, env)

\* get_announcement(announcement_hash).
get_announcement(handlers, announcement_hash, env) ==
    get_immutable_data(handlers, announcement_hash, None, "get_blockchain_compat_hash",
                       FALSE, NoNames, env)

\* put_announcement(announcement_text, txid).
put_announcement(handlers, announcement_text, drv, store) ==
    LET data_hash == get_blockchain_compat_hash(announcement_text)
        res == put_immutable_data(handlers, <<>>, data_hash, <<announcement_text>>,
                                  {}, drv, store)
    IN  [result |-> IF res.result = NoneTok THEN NoneTok ELSE data_hash,
         calls |-> res.calls, store |-> res.store]

\* -------------------------------------------------------------- wallet

\* HDWallet.get_child_privkey(index): the private key of the hardened
\* child of the keychain at the index.
get_child_privkey(index) == [hardened_child |-> index]

\* crypto.utils.get_address_from_privkey.
get_address_from_privkey(hex_privkey) == [address_of |-> hex_privkey]

\* HDWallet.get_child_address(index).
get_child_address(index) == get_address_from_privkey(get_child_privkey(index))

\* HDWallet.get_child_keypairs(count, offset) with include_privkey off:
\* the child addresses of the indexes offset .. offset+count-1.
get_child_keypairs(count, offset) == [i \in 1..count |-> get_child_address(offset + i - 1)]

\* blockchain.dontuseAddress and blockchain.underfundedAddress: the
\* address has a pending transaction; its balance is too low.
dontuseAddress(pending, address) == address \in pending
underfundedAddress(underfunded, address) == address \in underfunded

\* What get_next_keypair returns when no address is ready: (None, None).
\* found is FALSE for it, and the two fields hold no child's address or key.
NoKeypair == [found |-> FALSE, payment_address |-> get_child_address(-1),
              hex_privkey |-> get_child_privkey(-1)]

\* A slip: the index is not moved on with the addresses.
next_index_stuck(index) == index

\* index += 1 at the end of the loop body.
next_index(index) == index + 1

\* The loop of get_next_keypair over the addresses.
RECURSIVE get_next_keypair_loop(_, _, _, _, _)
get_next_keypair_loop(addresses, i, index, pending, underfunded) ==
    IF i > Len(addresses) THEN NoKeypair
    ELSE IF dontuseAddress(pending, addresses[i])
    THEN get_next_keypair_loop(addresses, i + 1, next_index(index), pending, underfunded)
    ELSE IF underfundedAddress(underfunded, addresses[i])
    THEN get_next_keypair_loop(addresses, i + 1, next_index(index), pending, underfunded)
    ELSE [found |-> TRUE, payment_address |-> addresses[i],
          hex_privkey |-> get_child_privkey(index)]

\* HDWallet.get_next_keypair(count).
get_next_keypair(count, pending, underfunded) ==
    get_next_keypair_loop(get_child_keypairs(count, 0), 1, 0, pending, underfunded)

\* ------------------------------------------------------------- actions

Init ==
    /\ storage_handlers = <<>>
    /\ immutable_store = [d \in Drivers |-> {}]
    /\ mutable_store = [d \in Drivers |-> {}]
    /\ last = Idle
    /\ put_done = [payload |-> {}, result |-> NoneTok]

\* The client takes the result of its call and is free to call again.
Return ==
    /\ last # Idle
    /\ last' = Idle
    /\ UNCHANGED <<storage_handlers, immutable_store, mutable_store, put_done>>

\* The methods a driver handed to register_storage may have: none, one, all.
MethodSets == {{}, {"get_mutable_handler"}, expected_methods}

Register ==
    /\ last = Idle
    /\ \E d \in Drivers :
        /\ d \in Range(storage_handlers) \/ Len(storage_handlers) < MaxHandlers
        /\ storage_handlers' = register_storage(storage_handlers, d)
        /\ \E methods \in MethodSets :
             last' = [op |-> "register", storage_impl |-> d, methods |-> methods,
                      handlers_before |-> storage_handlers,
                      result |-> register_storage_result(storage_handlers, d, methods)]
    /\ UNCHANGED <<immutable_store, mutable_store, put_done>>

\* lookup_storage_handler(handler_name), by a name some driver has or by
\* one that none has.
Lookup ==
    /\ last = Idle
    /\ \E handler_name \in DriverNames \cup {"c"} :
        last' = [op |-> "lookup", handler_name |-> handler_name,
                 result |-> lookup_storage_handler(storage_handlers, handler_name)]
    /\ UNCHANGED <<storage_handlers, immutable_store, mutable_store, put_done>>

GetStorageHandlers ==
    /\ last = Idle
    /\ last' = [op |-> "get_storage_handlers",
                result |-> get_storage_handlers(storage_handlers)]
    /\ UNCHANGED <<storage_handlers, immutable_store, mutable_store, put_done>>

NextRegistry == Register \/ Lookup \/ GetStorageHandlers \/ Return

\* The registry alone.
SpecRegistry == Init /\ [][NextRegistry]_vars

\* The hashes a caller may ask for.
ImmutableHashes ==
    {get_data_hash(t) : t \in ImmutableTexts}
    \cup {get_blockchain_compat_hash(AnnouncementText)}

\* How the URL hint may answer urllib2.urlopen(...).read().
UrlAnswers(data_url) ==
    IF data_url = None THEN {Answer("none")}
    ELSE {Answer("raise")} \cup {DataAnswer(t) : t \in ImmutableTexts}

\* How a driver may answer get_immutable_handler when it answers as it
\* likes, whatever it stores.
AnyGetAnswers ==
    {Answer("nocap"), Answer("raise"), Answer("none")}
    \cup {DataAnswer(t) : t \in ImmutableTexts}

\* get_immutable_data, called with any arguments from the given sets.
GetImmutableCall(hashes, urls, funcs, flags, lists, answers) ==
    /\ last = Idle
    /\ \E data_hash \in hashes, data_url \in urls, hash_func \in funcs,
          deserialize \in flags, drivers \in lists :
       \E url_answer \in UrlAnswers(data_url),
          drv \in [Range(storage_handlers) -> answers] :
        LET env == [url |-> url_answer, drv |-> drv, store |-> immutable_store]
            r == get_immutable_data(storage_handlers, data_hash, data_url,
                                    hash_func, deserialize, drivers, env)
        IN  /\ storage_handlers' = storage_handlers_after(storage_handlers, drivers)
            /\ last' = [op |-> "get_immutable", data_hash |-> data_hash,
                         data_url |-> data_url, hash_func |-> hash_func,
                         deserialize |-> deserialize, drivers |-> drivers,
                         env |-> env, result |-> r.result, raw |-> r.raw,
                         calls |-> r.calls]
    /\ UNCHANGED <<immutable_store, mutable_store, put_done>>

\* How a driver may answer put_immutable_handler.
PutAnswers == {"nocap", "raise", "false", "true"}

\* put_immutable_data(data_json, txid, required=...), called with a
\* payload and required from the given sets against drivers that answer
\* from the given set.
PutImmutableCall(payloads, requireds, answers) ==
    /\ last = Idle
    /\ \E data_json \in payloads, required \in requireds,
          drv \in [Range(storage_handlers) -> answers] :
        LET r == put_immutable_data(storage_handlers, <<data_json>>, NoneTok, <<>>,
                                    required, drv, immutable_store)
        IN  /\ immutable_store' = r.store
            /\ put_done' = [payload |-> data_json, result |-> r.result]
            /\ last' = [op |-> "put_immutable", data_json |-> data_json,
                         required |-> required, drv |-> drv,
                         result |-> r.result, calls |-> r.calls]
    /\ UNCHANGED <<storage_handlers, mutable_store>>

\* A write of either payload.
PutImmutable == PutImmutableCall(Payloads, SUBSET DriverNames, PutAnswers)

\* A read from drivers that answer as they like.
GetImmutable ==
    GetImmutableCall(ImmutableHashes, {None, DataUrl}, HashFuncs, BOOLEAN,
                     {NoNames} \cup NameLists, AnyGetAnswers)

NextRead == Register \/ GetImmutable \/ Return

\* The registry and reads of immutable data from arbitrary drivers.
SpecRead == Init /\ [][NextRead]_vars

\* How a driver that may hold the data answers get_immutable_handler.
StoredGetAnswers ==
    {Answer("nocap"), Answer("raise"), Answer("stored"),
     DataAnswer(AnnouncementText), DataAnswer(json_dumps(PayloadK1))}

\* get_immutable_data(data_hash) with the defaults for everything else.
GetImmutableStored ==
    GetImmutableCall({get_data_hash(json_dumps(p)) : p \in Payloads}, {None},
                     {"get_data_hash"}, {TRUE}, {NoNames}, StoredGetAnswers)

NextWrite == Register \/ PutImmutable \/ Return

\* The registry and writes of immutable data.
SpecWrite == Init /\ [][NextWrite]_vars

NextImmutable == Register \/ PutImmutable \/ GetImmutableStored \/ Return

\* The registry, writes of immutable data and reads of what was written.
SpecImmutable == Init /\ [][NextImmutable]_vars

\* The data id the mutable calls of the model address.
FqDataIds == {make_fq_data_id(<<Tok("alice.id")>>, <<Tok("profile")>>)}

\* put_mutable_data, called with arguments from the given sets.
PutMutableCall(payloads, privkeys, profiles, requireds, use_onlys, answers) ==
    /\ last = Idle
    /\ \E fq_data_id \in FqDataIds, data_json \in payloads, privatekey_hex \in privkeys,
          profile \in profiles, required \in requireds, use_only \in use_onlys,
          drv \in [Range(storage_handlers) -> answers] :
        LET r == put_mutable_data(storage_handlers, fq_data_id, data_json,
                                  privatekey_hex, profile, required, use_only,
                                  drv, mutable_store)
        IN  /\ mutable_store' = r.store
            /\ last' = [op |-> "put_mutable", fq_data_id |-> fq_data_id,
                         data_json |-> data_json, privatekey_hex |-> privatekey_hex,
                         profile |-> profile, required |-> required,
                         use_only |-> use_only, drv |-> drv,
                         result |-> r.result, calls |-> r.calls,
                         store_before |-> mutable_store]
    /\ UNCHANGED <<storage_handlers, immutable_store, put_done>>

\* A write of one payload with a single-signature or a multi-signature key.
PutMutable ==
    PutMutableCall({PayloadK1}, {"k1", MultiSigKey}, BOOLEAN, SUBSET DriverNames,
                   SUBSET DriverNames, PutAnswers)

NextPutMutable == Register \/ PutMutable \/ Return

\* The registry and writes of mutable data.
SpecPutMutable == Init /\ [][NextPutMutable]_vars

\* The envelopes the drivers may hold: both generations, signed by either
\* key.
Envelopes ==
    {serialize_mutable_data(PayloadK1, k, get_pubkey_hex(k), profile) :
        k \in {"k1", "k2"}, profile \in BOOLEAN}

\* How a driver may answer get_mutable_handler, the same for every URL.
MutableGetAnswers ==
    {[u \in Urls |-> a] :
        a \in {Answer("raise"), Answer("unhandled"), Answer("none")}
               \cup {DataAnswer(t) : t \in Envelopes}}

\* get_mutable_data, called with arguments from the given sets against
\* drivers that answer from the given sets.
GetMutableCall(pubkeys, addresses, owners, decodes, urllists, lists, caps, makes, handles, gets) ==
    /\ last = Idle
    /\ \E fq_data_id \in FqDataIds, data_pubkey \in pubkeys, data_address \in addresses,
          owner_address \in owners, decode \in decodes, urls \in urllists,
          drivers \in lists :
       \E has_get \in [Range(storage_handlers) -> caps],
          make \in [Range(storage_handlers) -> makes],
          handle \in [Range(storage_handlers) -> handles],
          get \in [Range(storage_handlers) -> gets] :
        LET env == [has_get |-> has_get, make |-> make, handles |-> handle, get |-> get]
            r == get_mutable_data(storage_handlers, env, fq_data_id, data_pubkey, urls,
                                  data_address, owner_address, drivers, decode)
        IN  /\ storage_handlers' = storage_handlers_after(storage_handlers, drivers)
            /\ last' = [op |-> "get_mutable", fq_data_id |-> fq_data_id,
                         data_pubkey |-> data_pubkey, urls |-> urls,
                         data_address |-> data_address, owner_address |-> owner_address,
                         drivers |-> drivers, decode |-> decode, env |-> env,
                         result |-> r.result, calls |-> r.calls]
    /\ UNCHANGED <<immutable_store, mutable_store, put_done>>

\* A read by a caller who expects the key of k1, may name its address,
\* and may name the address of k2 as the owner's.
GetMutableOwner ==
    GetMutableCall({"04k1"}, {NoAddress, public_key_to_address("04k1")},
                   {NoAddress, public_key_to_address("04k2")}, BOOLEAN,
                   {NoUrls}, {NoNames}, {TRUE}, {"ok"}, {"all"}, MutableGetAnswers)

NextGetMutableOwner == Register \/ GetMutableOwner \/ Return

\* The registry and reads of mutable data with an owner address.
SpecGetMutableOwner == Init /\ [][NextGetMutableOwner]_vars

\* An envelope that decodes under the key of k1, one signed by another
\* key, and one whose signature field is the base64 of five bytes.
GoodEnvelope == serialize_mutable_data(PayloadK1, "k1", "04k1", FALSE)
ForeignEnvelope == serialize_mutable_data(PayloadK1, "k2", "04k2", FALSE)
ShortSigEnvelope == [GoodEnvelope EXCEPT ![5] = b64encode(Tok("hello"))]

\* How get_mutable_handler may answer one URL.
UrlGetAnswers ==
    {Answer("raise"), Answer("unhandled"), Answer("none"),
     DataAnswer(GoodEnvelope), DataAnswer(ForeignEnvelope), DataAnswer(ShortSigEnvelope)}

\* A read with no URLs: each driver makes its own, and answers the same
\* for every URL.
GetMutableMade ==
    GetMutableCall({"04k1"}, {NoAddress}, {NoAddress}, BOOLEAN, {NoUrls},
                   {NoNames, [given |-> TRUE, names |-> <<"b", "a">>]},
                   BOOLEAN, {"nocap", "raise", "ok"}, {"all"},
                   {[u \in Urls |-> a] : a \in UrlGetAnswers})

\* A read with URLs: each driver is asked which it handles, and answers
\* each URL as it likes.
GetMutableUrls ==
    GetMutableCall({"04k1"}, {NoAddress}, {NoAddress}, BOOLEAN,
                   {[given |-> TRUE, urls |-> <<"u1", "u2">>],
                    [given |-> TRUE, urls |-> <<"u2">>]},
                   {NoNames}, {TRUE}, {"ok"}, {"nocap", "raise", "all", "u2"},
                   [Urls -> {Answer("unhandled"), Answer("none"),
                             DataAnswer(GoodEnvelope), DataAnswer(ShortSigEnvelope)}])

NextGetMutable == Register \/ GetMutableMade \/ GetMutableUrls \/ Return

\* The registry and reads of mutable data.
SpecGetMutable == Init /\ [][NextGetMutable]_vars

\* ------------------------------------------------------------- deletes

\* How a driver may answer a delete handler.
DeleteAnswers == {"nocap", "raise", "false", "true"}

\* delete_immutable_data(data_hash, txid, privkey) of the hash of a payload.
DeleteImmutable ==
    /\ last = Idle
    /\ \E data_hash \in {get_data_hash(json_dumps(p)) : p \in Payloads},
          privkey \in {"k1", MultiSigKey},
          drv \in [Range(storage_handlers) -> DeleteAnswers] :
        LET r == delete_immutable_data(storage_handlers, data_hash, "txid", privkey,
                                       drv, immutable_store)
        IN  /\ immutable_store' = r.store
            /\ last' = [op |-> "delete_immutable", data_hash |-> data_hash,
                         privkey |-> privkey, drv |-> drv, result |-> r.result,
                         calls |-> r.calls, store_before |-> immutable_store]
    /\ UNCHANGED <<storage_handlers, mutable_store, put_done>>

\* A write that every driver is free to accept or decline.
PutImmutableAny == PutImmutableCall(Payloads, {{}}, {"false", "true"})

NextDeleteImmutable == Register \/ PutImmutableAny \/ DeleteImmutable \/ Return

\* The registry, writes and deletes of immutable data.
SpecDeleteImmutable == Init /\ [][NextDeleteImmutable]_vars

\* delete_mutable_data(fq_data_id, privatekey, only_use).
DeleteMutable ==
    /\ last = Idle
    /\ \E fq_data_id \in FqDataIds, privatekey \in {"k1", MultiSigKey},
          only_use \in SUBSET DriverNames,
          drv \in [Range(storage_handlers) -> DeleteAnswers] :
        LET r == delete_mutable_data(storage_handlers, fq_data_id, privatekey,
                                     only_use, drv, mutable_store)
        IN  /\ mutable_store' = r.store
            /\ last' = [op |-> "delete_mutable", fq_data_id |-> fq_data_id,
                         privatekey |-> privatekey, only_use |-> only_use,
                         drv |-> drv, result |-> r.result, calls |-> r.calls,
                         store_before |-> mutable_store]
    /\ UNCHANGED <<storage_handlers, immutable_store, put_done>>

\* A write of mutable data with a single-signature key, to any drivers.
PutMutableSigned ==
    PutMutableCall({PayloadK1}, {"k1"}, {FALSE}, SUBSET DriverNames, SUBSET DriverNames,
                   PutAnswers)

NextDelete == Register \/ DeleteImmutable \/ DeleteMutable \/ Return

\* The registry and deletes of immutable and of mutable data.
SpecDelete == Init /\ [][NextDelete]_vars

NextDeleteMutable == Register \/ PutMutableSigned \/ DeleteMutable \/ Return

\* The registry, writes and deletes of mutable data.
SpecDeleteMutable == Init /\ [][NextDeleteMutable]_vars

\* A driver's get_mutable_handler that returns what the driver holds
\* under its URL of the data, or None.
StoredMutable(store, handler, fq_data_id) ==
    [u \in Urls |->
        IF u = make_mutable_url(handler, fq_data_id) /\ \E e \in store : e[1] = fq_data_id
        THEN DataAnswer((CHOOSE e \in store : e[1] = fq_data_id)[2])
        ELSE Answer("none")]

\* A write of either payload with the key k1, to drivers that accept it or
\* return false.
PutMutableAgain ==
    PutMutableCall(Payloads, {"k1"}, {FALSE}, SUBSET DriverNames, {{}}, {"false", "true"})

\* get_mutable_data(fq_data_id, data_pubkey) right after a write, for the
\* data id of the write and the public key of its private key; every
\* driver makes its URL and returns what it holds.
GetMutableAfterPut ==
    /\ last.op = "put_mutable"
    /\ \E get \in {[h \in Range(storage_handlers) |->
                       StoredMutable(mutable_store[h], h, last.fq_data_id)]},
          data_pubkey \in {get_pubkey_hex(last.privatekey_hex)} :
        LET env == [has_get |-> [h \in Range(storage_handlers) |-> TRUE],
                    make |-> [h \in Range(storage_handlers) |-> "ok"],
                    handles |-> [h \in Range(storage_handlers) |-> "all"],
                    get |-> get]
            r == get_mutable_data(storage_handlers, env, last.fq_data_id, data_pubkey,
                                  NoUrls, NoAddress, NoAddress, NoNames, TRUE)
        IN  last' = [op |-> "get_mutable", fq_data_id |-> last.fq_data_id,
                     data_pubkey |-> data_pubkey, urls |-> NoUrls,
                     data_address |-> NoAddress, owner_address |-> NoAddress,
                     drivers |-> NoNames, decode |-> TRUE, env |-> env,
                     result |-> r.result, calls |-> r.calls, put |-> last]
    /\ UNCHANGED <<storage_handlers, immutable_store, mutable_store, put_done>>

NextReadYourWrites == Register \/ PutMutableAgain \/ GetMutableAfterPut \/ Return

\* The registry, writes of mutable data and the read that follows a write.
SpecReadYourWrites == Init /\ [][NextReadYourWrites]_vars

\* A write of one payload of immutable data.
PutImmutableOne == PutImmutableCall({PayloadK1}, SUBSET DriverNames, PutAnswers)

NextPut == Register \/ PutImmutableOne \/ PutMutableSigned \/ Return

\* The registry and writes of immutable and of mutable data.
SpecPut == Init /\ [][NextPut]_vars

\* A read of immutable data with or without a whitelist, from drivers
\* that return what they hold or have no get_immutable_handler.
GetImmutableListed ==
    GetImmutableCall({get_data_hash(json_dumps(PayloadK1))}, {None}, {"get_data_hash"},
                     {TRUE}, {NoNames} \cup NameLists,
                     {Answer("nocap"), Answer("stored")})

\* A read of mutable data with or without a whitelist, of the text as the
\* drivers return it.
GetMutableListed ==
    GetMutableCall({"04k1"}, {NoAddress}, {NoAddress}, {FALSE}, {NoUrls},
                   {NoNames} \cup NameLists, {TRUE}, {"ok"}, {"all"},
                   {[u \in Urls |-> a] : a \in {Answer("none"), DataAnswer(GoodEnvelope)}})

\* Writes that every driver is free to accept or decline, the mutable one
\* with or without a whitelist.
PutImmutableFree == PutImmutableCall({PayloadK1}, {{}}, {"false", "true"})
PutMutableFree ==
    PutMutableCall({PayloadK1}, {"k1"}, {FALSE}, {{}}, SUBSET DriverNames,
                   {"false", "true"})

NextRouter ==
    \/ Register
    \/ GetImmutableListed
    \/ GetMutableListed
    \/ PutImmutableFree
    \/ PutMutableFree
    \/ DeleteImmutable
    \/ DeleteMutable
    \/ Return

\* The registry and every operation of the router.
SpecRouter == Init /\ [][NextRouter]_vars

\* The child addresses the blockchain may know something about.
ChildAddresses == {get_child_address(index) : index \in 0..(MaxCount - 1)}

\* get_next_keypair(count), with any addresses pending and any underfunded.
GetNextKeypair ==
    /\ last = Idle
    /\ \E count \in 0..MaxCount, pending \in SUBSET ChildAddresses,
          underfunded \in SUBSET ChildAddresses :
        last' = [op |-> "get_next_keypair", count |-> count, pending |-> pending,
                 underfunded |-> underfunded,
                 result |-> get_next_keypair(count, pending, underfunded)]
    /\ UNCHANGED <<storage_handlers, immutable_store, mutable_store, put_done>>

NextWallet == GetNextKeypair \/ Return

\* The wallet's choice of a payment address.
SpecWallet == Init /\ [][NextWallet]_vars

\* ---------------------------------------------------- the codec alone

\* The private keys envelopes are signed with.
SignerKeys == {"k1", "k1_01", "k2"}

\* The public key of a private key, in both forms.
PubkeyForms(k) ==
    {pub \in UncompressedPubKeys \cup CompressedPubKeys :
        decompress(pub) = decompress(get_pubkey_hex(k))}

\* The envelopes serialize_mutable_data makes, of both generations, with
\* the public key in either form.
SignedEnvelopes ==
    UNION {{serialize_mutable_data(p, k, pub, profile) : pub \in PubkeyForms(k)} :
              p \in Payloads, k \in SignerKeys, profile \in BOOLEAN}

\* One version 2 envelope, and the text it becomes when a field is replaced.
SampleEnvelope == serialize_mutable_data(PayloadK1, "k1", "04k1", FALSE)

WithPubkey(envelope, tok) == [envelope EXCEPT ![3] = tok]
WithSignature(envelope, tok) == [envelope EXCEPT ![5] = tok]
WithData(envelope, data_txt) == SubSeq(envelope, 1, 6) \o data_txt

\* Signature fields that are not the base64 text of a base64 signature:
\* text outside the base64 alphabet, the base64 of five bytes, and a
\* signature that was base64-encoded once.
BadSignatures ==
    {Tok("!!"), b64encode(Tok("hello")), sign_raw_data(json_dumps(PayloadK1), "k1")}

\* Version 2 text that serialize_mutable_data did not make.
MalformedEnvelopes ==
    {WithSignature(SampleEnvelope, t) : t \in BadSignatures}
    \cup {WithPubkey(SampleEnvelope, Tok("zz")), WithPubkey(SampleEnvelope, Tok("abcd")),
          WithData(SampleEnvelope, json_dumps(PayloadA15K2)),
          WithData(serialize_mutable_data(PayloadA15K2, "k2", "02k2", FALSE),
                   json_dumps(PayloadK1)),
          SubSeq(SampleEnvelope, 1, 4)}

\* The keys and addresses a caller may expect.
ExpectedPubkeys == {None, "04k1", "02k1", "04k2"}
ExpectedAddresses ==
    {NoAddress, public_key_to_address("04k1"), public_key_to_address("04k2")}

\* parse_mutable_data(text, public_key, public_key_hash) on any of the texts.
Decode ==
    /\ last = Idle
    /\ \E text \in SignedEnvelopes \cup MalformedEnvelopes,
          public_key \in ExpectedPubkeys, public_key_hash \in ExpectedAddresses :
        last' = [op |-> "decode", text |-> text, public_key |-> public_key,
                 public_key_hash |-> public_key_hash,
                 result |-> parse_mutable_data(text, public_key, public_key_hash)]
    /\ UNCHANGED <<storage_handlers, immutable_store, mutable_store, put_done>>

\* verify_raw_data(raw_data, pubkey_hex, sigb64) on signatures and on text
\* that is none.
Verify ==
    /\ last = Idle
    /\ \E raw_data \in {json_dumps(p) : p \in Payloads},
          pubkey_hex \in UncompressedPubKeys \cup CompressedPubKeys,
          sigb64 \in {sign_raw_data(json_dumps(p), k) : p \in Payloads, k \in SignerKeys}
                     \cup {Tok("!!"), b64encode(Tok("hello"))} :
        last' = [op |-> "verify", raw_data |-> raw_data, pubkey_hex |-> pubkey_hex,
                 sigb64 |-> sigb64,
                 result |-> verify_raw_data(raw_data, pubkey_hex, sigb64)]
    /\ UNCHANGED <<storage_handlers, immutable_store, mutable_store, put_done>>

NextCodec == Decode \/ Verify \/ Return

\* The codec: decoding and signature checks on any input.
SpecCodec == Init /\ [][NextCodec]_vars

\* ------------------------------------------------------- announcements

\* The announcements of the model: plain text, and text that is JSON.
AnnouncementTexts == {AnnouncementText, json_dumps(PayloadK1)}

PutAnnouncement ==
    /\ last = Idle
    /\ \E announcement_text \in AnnouncementTexts,
          drv \in [Range(storage_handlers) -> PutAnswers] :
        LET r == put_announcement(storage_handlers, announcement_text, drv,
                                  immutable_store)
        IN  /\ immutable_store' = r.store
            /\ put_done' = [payload |-> {}, result |-> r.result]
            /\ last' = [op |-> "put_announcement",
                         announcement_text |-> announcement_text, drv |-> drv,
                         result |-> r.result, calls |-> r.calls]
    /\ UNCHANGED <<storage_handlers, mutable_store>>

\* get_announcement(announcement_hash) from drivers that return what they
\* hold, or answer with text of their own.
GetAnnouncement ==
    /\ last = Idle
    /\ \E announcement_hash \in {get_blockchain_compat_hash(t) : t \in AnnouncementTexts},
          drv \in [Range(storage_handlers) ->
                     {Answer("nocap"), Answer("raise"), Answer("none"), Answer("stored")}
                     \cup {DataAnswer(t) : t \in AnnouncementTexts}] :
        LET env == [url |-> Answer("none"), drv |-> drv, store |-> immutable_store]
            r == get_announcement(storage_handlers, announcement_hash, env)
        IN  last' = [op |-> "get_announcement", announcement_hash |-> announcement_hash,
                     env |-> env, result |-> r.result, raw |-> r.raw, calls |-> r.calls]
    /\ UNCHANGED <<storage_handlers, immutable_store, mutable_store, put_done>>

NextAnnounce == Register \/ PutAnnouncement \/ GetAnnouncement \/ Return

\* The registry, and announcements written and read.
SpecAnnounce == Init /\ [][NextAnnounce]_vars

\* ------------------------------------------------------------- signing

\* The texts the module signs: JSON of payloads and what a delete signs.
SignedTexts ==
    {json_dumps(p) : p \in Payloads}
    \cup {delete_mutable_text(fq) : fq \in FqDataIds}
    \cup {delete_immutable_text(h, "txid") : h \in ImmutableHashes}

\* sign_raw_data(raw_data, privatekey_hex), where the library's signature
\* has any s from 1 to the order of the curve less one.
Sign ==
    /\ last = Idle
    /\ \E raw_data \in SignedTexts, privatekey_hex \in SignerKeys,
          sig_s \in 1..(CurveOrder - 1) :
        last' = [op |-> "sign", raw_data |-> raw_data,
                 privatekey_hex |-> privatekey_hex, sig_s |-> sig_s,
                 result |-> sign_raw_data_from(raw_data, privatekey_hex, sig_s)]
    /\ UNCHANGED <<storage_handlers, immutable_store, mutable_store, put_done>>

NextSign == Sign \/ Return

\* Signing alone.
SpecSign == Init /\ [][NextSign]_vars

\* ------------------------------------------------------------ data ids

\* Names and data ids: text made of valid names, text with an illegal
\* character, and ':'.
NameTexts ==
    SeqsUpTo({Tok("alice.id"), Tok("bob.id"), Tok("Bad!"), Tok(":")}, MaxPieces)
DataIdTexts == SeqsUpTo({Tok("profile"), Tok(":")}, MaxPieces - 1)

\* make_fq_data_id(name, data_id), and is_fq_data_id of what it returns.
MakeFqDataId ==
    /\ last = Idle
    /\ \E name \in NameTexts, data_id \in DataIdTexts :
        LET fq_data_id == make_fq_data_id(name, data_id)
        IN  last' = [op |-> "make_fq_data_id", name |-> name, data_id |-> data_id,
                     fq_data_id |-> fq_data_id, result |-> is_fq_data_id(fq_data_id)]
    /\ UNCHANGED <<storage_handlers, immutable_store, mutable_store, put_done>>

\* is_fq_data_id of text that may have no ':' in it.
IsFqDataId ==
    /\ last = Idle
    /\ \E fq_data_id \in NameTexts :
        last' = [op |-> "is_fq_data_id", fq_data_id |-> fq_data_id,
                 result |-> is_fq_data_id(fq_data_id)]
    /\ UNCHANGED <<storage_handlers, immutable_store, mutable_store, put_done>>

NextDataId == MakeFqDataId \/ IsFqDataId \/ Return

\* Data ids alone.
SpecDataId == Init /\ [][NextDataId]_vars

\* ------------------------------------------- claims: get_immutable_data

IsGetImmutable == last.op = "get_immutable"

\* The registered drivers a read selects: all of them, or those whose name
\* the whitelist holds.
SelectedDrivers ==
    IF ~last.drivers.given THEN Range(storage_handlers)
    ELSE {h \in Range(storage_handlers) : HandlerName(h) \in Range(last.drivers.names)}

\* The candidates of a read: the URL hint, when given, and the selected drivers.
Candidates == (IF last.data_url = None THEN {} ELSE {last.data_url}) \cup SelectedDrivers

\* What candidate c answers when asked.
AnswerOf(c) ==
    IF c = last.data_url THEN last.env.url
    ELSE IF last.env.drv[c].kind = "stored"
         THEN StoredImmutable(last.env.store[c], last.data_hash)
         ELSE last.env.drv[c]

\* Candidate c answers with bytes whose hash is not the requested one.
Mismatches(c) ==
    /\ AnswerOf(c).kind = "data"
    /\ ApplyHash(last.hash_func, AnswerOf(c).data) # last.data_hash

\* Candidate c answers with bytes that verify (and parse, when asked to).
Yields(c) ==
    /\ AnswerOf(c).kind = "data"
    /\ ApplyHash(last.hash_func, AnswerOf(c).data) = last.data_hash
    /\ last.deserialize => json_loads(AnswerOf(c).data).ok

\* C1: get_immutable never returns data whose hash_func value differs from
\* the requested hash, and when every candidate (the URL hint, each selected
\* driver) answers with bytes of a mismatching hash, all candidates are
\* tried and the result is None.
C1_MismatchRejectedAllTried ==
    IsGetImmutable =>
        /\ last.result.kind # "None" =>
                ApplyHash(last.hash_func, last.raw) = last.data_hash
        /\ (\A c \in Candidates : Mismatches(c)) =>
                /\ last.result.kind = "None"
                /\ Range(last.calls) = Candidates

\* The part of C1 that holds of every read: what is returned was read from
\* bytes whose hash is the requested one.
C1_ReturnedDataVerifies ==
    IsGetImmutable /\ last.result.kind # "None" =>
        /\ ApplyHash(last.hash_func, last.raw) = last.data_hash
        /\ last.result.kind = "text" => last.result.val = last.raw
        /\ last.result.kind = "json" => last.result.val = json_loads(last.raw).val

\* C5: get_immutable returns None only if every candidate was tried and
\* failed: no candidate that would yield verified data is left untried,
\* whatever the registry holds.
C5_NoneOnlyWhenExhausted ==
    IsGetImmutable /\ last.result.kind = "None" =>
        \A c \in Candidates : ~Yields(c)

\* The order C6 states: the URL hint, then the registered drivers the
\* whitelist names (all of them without one), in registration order.
RegistrationOrder ==
    (IF last.data_url = None THEN <<>> ELSE <<last.data_url>>)
    \o SelectSeq(storage_handlers, LAMBDA h : h \in SelectedDrivers)

\* The candidates of order that are contacted: those before and at the
\* first one that yields, leaving out the drivers with no get_immutable_handler.
RECURSIVE ContactedOf(_, _)
ContactedOf(order, i) ==
    IF i > Len(order) THEN <<>>
    ELSE IF AnswerOf(order[i]).kind = "nocap" THEN ContactedOf(order, i + 1)
    ELSE IF Yields(order[i]) THEN <<order[i]>>
    ELSE <<order[i]>> \o ContactedOf(order, i + 1)

\* C6: get_immutable tries the URL hint first and then the drivers the
\* whitelist names, in registration order, and stops at the first candidate
\* whose data verifies.
C6_HintThenRegistrationOrder ==
    IsGetImmutable => last.calls = ContactedOf(RegistrationOrder, 1)

\* ------------------------------------------- claims: put_immutable_data

IsPutImmutable == last.op = "put_immutable"

\* Driver h failed the write: it has no put_immutable_handler, it raises,
\* or it returns false.
PutFailed(h) == last.drv[h] \in {"nocap", "raise", "false"}

\* C2: put_immutable returns None whenever a driver named in required
\* fails (no put_immutable_handler, raises, or returns false), even if
\* another driver accepts the write.
C2_RequiredFailureIsFatal ==
    IsPutImmutable =>
        ((\E h \in Range(storage_handlers) :
              HandlerName(h) \in last.required /\ PutFailed(h))
            => last.result = NoneTok)

\* C3: with an empty required list, put_immutable returns the data hash
\* if and only if some driver's put_immutable_handler returned true, and
\* None if and only if none did; a driver that lacks the method, raises or
\* returns false is a miss, and the drivers after it are still called.
C3_BestEffortWrite ==
    IsPutImmutable /\ last.required = {} =>
        LET accepted == \E h \in Range(storage_handlers) : last.drv[h] = "true"
            hash == get_data_hash(json_dumps(last.data_json))
        IN  /\ last.result = hash <=> accepted
            /\ last.result = NoneTok <=> ~accepted
            /\ [i \in DOMAIN last.calls |-> last.calls[i].who]
                   = SelectSeq(storage_handlers, LAMBDA h : last.drv[h] # "nocap")

\* C3's case: two drivers, no required list, the first fails and the second
\* accepts, and the write returns the hash.
C3_Witness ==
    /\ IsPutImmutable /\ last.required = {}
    /\ Len(storage_handlers) = 2
    /\ last.drv[storage_handlers[1]] = "raise"
    /\ last.drv[storage_handlers[2]] = "true"
    /\ last.result = get_data_hash(json_dumps(PayloadA15K2))

\* Driver d keeps what put_immutable_handler receives (it holds something
\* under hash key) and returns it from get_immutable_handler.
KeepsAndReturns(d, key) ==
    /\ last.env.drv[d].kind = "stored"
    /\ \E e \in immutable_store[d] : e[1] = key

\* A read of the hash the last write returned, with the defaults, from a
\* registry that holds a driver that keeps and returns what it is given.
ReadsBackLastWrite ==
    /\ IsGetImmutable
    /\ put_done.result # NoneTok
    /\ last.data_hash = put_done.result
    /\ last.data_url = None /\ ~last.drivers.given
    /\ last.hash_func = "get_data_hash" /\ last.deserialize
    /\ \E d \in Range(storage_handlers) : KeepsAndReturns(d, put_done.result)

\* C4: if put_immutable(payload, txid) returned hash h, and a registered
\* driver keeps what it is given and returns it, then a following
\* get_immutable(h) returns a value equal to payload.
C4_PutGetRoundTrip ==
    ReadsBackLastWrite =>
        /\ last.result.kind = "json"
        /\ last.result.val = put_done.payload

\* C4's case: the payload with two keys and a decimal is read back while
\* another driver answers with the text of another payload.
C4_Witness ==
    /\ ReadsBackLastWrite
    /\ put_done.payload = PayloadA15K2
    /\ last.result.kind = "json"
    /\ \E d \in Range(storage_handlers) :
           last.env.drv[d] = DataAnswer(json_dumps(PayloadK1))

\* --------------------------------------------- claims: put_mutable_data

IsPutMutable == last.op = "put_mutable"

\* The drivers put_mutable_handler was called on, in order.
Callees == [i \in DOMAIN last.calls |-> last.calls[i].who]

\* C7: put_mutable with a multi-signature private key returns false and
\* calls no method of any registered driver: no put_mutable_handler call,
\* and what the drivers hold is unchanged.
C7_MultiSigRejected ==
    IsPutMutable /\ ~is_singlesig(last.privatekey_hex) =>
        /\ last.result = "False"
        /\ last.calls = <<>>
        /\ mutable_store = last.store_before

\* C7's case: a multi-signature key, and two registered drivers that would
\* both have accepted the write.
C7_Witness ==
    /\ IsPutMutable /\ last.privatekey_hex = MultiSigKey
    /\ Len(storage_handlers) = 2
    /\ \A h \in Range(storage_handlers) : last.drv[h] = "true"
    /\ last.result = "False"

\* Driver h failed the write: it has no put_mutable_handler, or it was
\* called and raised or returned false.
MutableFailed(h) ==
    \/ last.drv[h] = "nocap"
    \/ h \in Range(Callees) /\ last.drv[h] \in {"raise", "false"}

\* The drivers a write with no fatal failure calls: those with the method
\* that use_only does not leave out, in registration order.
SelectedForPut ==
    SelectSeq(storage_handlers,
              LAMBDA h : /\ last.drv[h] # "nocap"
                         /\ (last.use_only = {} \/ HandlerName(h) \in last.use_only))

\* C8: in put_mutable a driver that lacks put_mutable_handler, raises or
\* returns false makes the whole write fail if and only if its name is in
\* required; on a driver not in required the same failure is a miss, the
\* remaining drivers are still tried, and the result counts the acceptances.
C8_FailureFatalIffRequired ==
    IsPutMutable /\ is_singlesig(last.privatekey_hex) =>
        LET fatal == \E h \in Range(storage_handlers) :
                         HandlerName(h) \in last.required /\ MutableFailed(h)
        IN  /\ fatal <=> last.result = None
            /\ fatal => last.result # "True"
            /\ ~fatal =>
                  /\ Callees = SelectedForPut
                  /\ last.result = "True" <=>
                        \E h \in Range(Callees) : last.drv[h] = "true"

\* C8's case: the first driver accepts, the second is required and
\* returns false, and the write fails.
C8_Witness ==
    /\ IsPutMutable /\ is_singlesig(last.privatekey_hex)
    /\ Len(storage_handlers) = 2 /\ Len(last.calls) = 2
    /\ last.drv[storage_handlers[1]] = "true"
    /\ last.drv[storage_handlers[2]] = "false"
    /\ HandlerName(storage_handlers[2]) \in last.required
    /\ HandlerName(storage_handlers[1]) \notin last.required
    /\ last.result = None

\* C9: with an empty required list, put_mutable returns true if and only
\* if some selected driver returned true from put_mutable_handler; every
\* selected driver receives the same serialized envelope, and with a
\* non-empty use_only no driver outside it is called.
C9_BestEffortMutableWrite ==
    IsPutMutable /\ last.required = {} =>
        /\ last.result = "True" <=> \E h \in Range(Callees) : last.drv[h] = "true"
        /\ last.result \in {"True", "False"}
        /\ is_singlesig(last.privatekey_hex) => Callees = SelectedForPut
        /\ \A i, j \in DOMAIN last.calls :
              /\ last.calls[i].text = last.calls[j].text
              /\ last.calls[i].key = last.fq_data_id
        /\ last.use_only # {} =>
              \A h \in Range(Callees) : HandlerName(h) \in last.use_only

\* C9's case: use_only names the first of two drivers, which accepts; the
\* second would have accepted too and is not called.
C9_Witness ==
    /\ IsPutMutable /\ last.required = {}
    /\ Len(storage_handlers) = 2
    /\ last.use_only = {HandlerName(storage_handlers[1])}
    /\ HandlerName(storage_handlers[2]) \notin last.use_only
    /\ \A h \in Range(storage_handlers) : last.drv[h] = "true"
    /\ Callees = <<storage_handlers[1]>>
    /\ last.result = "True"

\* ---------------------------------------------- claims: get_mutable_data

IsGetMutable == last # Idle /\ last.op = "get_mutable"

\* What the driver of a call handed back.
FetchedBy(c) == last.env.get[c.who][c.url]

\* The private keys whose address is the given one.
KeysOfAddress(address) ==
    {k \in SingleSigKeys : public_key_to_address(get_pubkey_hex(k)) = address}

\* The text is the envelope of the payload, of the given generation,
\* signed by a key whose address is the given one.
SignedByOwnerOf(text, payload, profile, address) ==
    \E k \in KeysOfAddress(address) :
        text = serialize_mutable_data(payload, k, get_pubkey_hex(k), profile)

\* In the call, some driver handed back an envelope of the given
\* generation that does not decode against the expected key and address
\* and is signed by the key of owner_address.
OwnerFallbackCase(c, profile) ==
    /\ last.decode
    /\ last.owner_address # NoAddress
    /\ FetchedBy(c).kind = "data"
    /\ parse_mutable_data(FetchedBy(c).data, last.data_pubkey, last.data_address).kind = "None"
    /\ SignedByOwnerOf(FetchedBy(c).data, PayloadK1, profile, last.owner_address)

OwnerFallbackReturns(profile) ==
    IsGetMutable =>
        \A i \in DOMAIN last.calls :
            OwnerFallbackCase(last.calls[i], profile) =>
                last.result.kind = "json" /\ last.result.val = PayloadK1

\* C10: with decode on, an envelope of either generation that does not
\* decode against the expected key and address but is signed by the key of
\* owner_address is decoded by the retry and its payload returned.
C10_OwnerAddressFallback == OwnerFallbackReturns(TRUE) /\ OwnerFallbackReturns(FALSE)

\* The selected drivers that have get_mutable_handler, in the order of
\* their selection.
SelectedForGet ==
    SelectSeq(handlers_to_use(storage_handlers, last.drivers),
              LAMBDA h : last.env.has_get[h])

\* The candidate URLs of a driver: those of the caller's it handles, or
\* the one it makes.  A driver that cannot say, or fails to, has none.
CandidateUrls(h) ==
    IF last.urls.given
    THEN SelectSeq(last.urls.urls, LAMBDA u : last.env.handles[h] \in {"all", u})
    ELSE IF last.env.make[h] = "ok"
         THEN <<make_mutable_url(h, last.fq_data_id)>>
         ELSE <<>>

\* The driver/URL pairs of the drivers from the i-th on, in order.
RECURSIVE PairsFrom(_, _)
PairsFrom(handlers, i) ==
    IF i > Len(handlers) THEN <<>>
    ELSE [j \in 1..Len(CandidateUrls(handlers[i])) |->
             [who |-> handlers[i], url |-> CandidateUrls(handlers[i])[j]]]
         \o PairsFrom(handlers, i + 1)

\* The pair hands back text that is fetched and, with decode on, decodes.
PairYields(c) ==
    /\ FetchedBy(c).kind = "data"
    /\ last.decode =>
          decode_fetched(FetchedBy(c).data, last.data_pubkey, last.data_address,
                         last.owner_address).kind = "json"

\* What the pair yields, as get_mutable returns it.
YieldOf(c) ==
    IF last.decode
    THEN [kind |-> "json", raw |-> FetchedBy(c).data,
          val |-> decode_fetched(FetchedBy(c).data, last.data_pubkey,
                                 last.data_address, last.owner_address).val]
    ELSE [kind |-> "text", raw |-> FetchedBy(c).data, val |-> {}]

\* The first pair of the sequence that yields; 0 when none does.
RECURSIVE FirstYield(_, _)
FirstYield(pairs, i) ==
    IF i > Len(pairs) THEN 0
    ELSE IF PairYields(pairs[i]) THEN i
    ELSE FirstYield(pairs, i + 1)

\* No handles_url of a selected driver raises in the call.
HandlesUrlAnswers ==
    \A h \in Range(SelectedForGet) :
        last.urls.given /\ Len(last.urls.urls) > 0 => last.env.handles[h] # "raise"

\* The call contacted the pairs in order up to the first that yields, and
\* returned what that pair yields, or None when none does.
FirstYieldOutcome ==
    LET pairs == PairsFrom(SelectedForGet, 1)
        first == FirstYield(pairs, 1)
    IN  IF first = 0
        THEN last.result = MutableNone /\ last.calls = pairs
        ELSE /\ last.result = YieldOf(pairs[first])
             /\ last.calls = SubSeq(pairs, 1, first)

\* C12: get_mutable goes through the selected drivers in order, and each
\* driver's candidate URLs in order; it returns the first payload that is
\* fetched (and decodes, with decode on) and contacts no pair after it; an
\* UnhandledURL signal, missing data or an envelope that does not decode
\* moves on; the result is None only when every pair was tried.
C12_FirstYieldInOrder ==
    IsGetMutable /\ HandlesUrlAnswers => FirstYieldOutcome

\* The envelopes the drivers hand back do not make the decoder raise.
NoDecoderFault ==
    \A h \in Range(SelectedForGet), u \in Urls :
        last.env.get[h][u] # DataAnswer(ShortSigEnvelope)

\* C12 holds of the reads in which the decoder does not raise.
C12_HoldsWithoutDecoderFault ==
    IsGetMutable /\ NoDecoderFault => C12_FirstYieldInOrder

\* Some capability method of a selected driver raises in the call.
SomeMethodRaises ==
    \E h \in Range(SelectedForGet) :
        \/ ~last.urls.given /\ last.env.make[h] = "raise"
        \/ last.urls.given /\ Len(last.urls.urls) > 0 /\ last.env.handles[h] = "raise"
        \/ \E u \in Range(CandidateUrls(h)) : last.env.get[h][u] = Answer("raise")

\* C13: an exception raised by make_mutable_url, handles_url or
\* get_mutable_handler is a miss of that driver or URL: the caller never
\* sees it, and the drivers after it are tried as if it had missed.
C13_DriverExceptionsAreMisses ==
    IsGetMutable /\ NoDecoderFault /\ SomeMethodRaises =>
        last.result.kind # "raise" /\ FirstYieldOutcome

\* C13 holds of the reads in which handles_url does not raise.
C13_HoldsUnlessHandlesUrlRaises ==
    IsGetMutable /\ HandlesUrlAnswers => C13_DriverExceptionsAreMisses

\* ----------------------------------------------------- claims: the codec

IsDecode == last # Idle /\ last.op = "decode"

\* The text is the version 2 envelope of the payload under the key.
IsV2EnvelopeOf(text, payload, k) ==
    text = serialize_mutable_data(payload, k, get_pubkey_hex(k), FALSE)

\* The expected key is absent or is not the embedded one, and the expected
\* hash is given and is the address of the embedded key.
HashPathCase(k) ==
    /\ last.public_key = None
       \/ decompress(last.public_key) # decompress(get_pubkey_hex(k))
    /\ last.public_key_hash # NoAddress
    /\ address_version_0(last.public_key_hash)
           = public_key_to_address(decompress(get_pubkey_hex(k)))

\* C11: decoding a validly signed bsk2 envelope succeeds when the expected
\* public key is absent or differs from the embedded key, if the expected
\* hash is given and its address is that of the embedded key.
C11_V2DecodesByHash ==
    IsDecode =>
        \A p \in Payloads, k \in SignerKeys :
            IsV2EnvelopeOf(last.text, p, k) /\ HashPathCase(k)
                => last.result = Parsed(p)

\* C14: a version 2 envelope made of a payload with a key pair decodes,
\* against the same public key and no hash, to that payload: also when the
\* public key is compressed and when the JSON text holds '.' characters.
C14_V2RoundTrip ==
    IsDecode =>
        \A p \in Payloads, k \in SignerKeys :
            \A pub \in PubkeyForms(k) :
                /\ last.text = serialize_mutable_data(p, k, pub, FALSE)
                /\ last.public_key = pub
                /\ last.public_key_hash = NoAddress
                => last.result = Parsed(p)

\* A round trip with a compressed public key and a payload whose JSON text
\* holds a '.'.
C14_Witness ==
    /\ IsDecode
    /\ last.text = serialize_mutable_data(PayloadA15K2, "k1_01", "02k1", FALSE)
    /\ last.public_key = "02k1"
    /\ last.public_key_hash = NoAddress
    /\ last.result = Parsed(PayloadA15K2)

\* The text starts with bsk2. and has the three fields after it.
IsV2Text(text) ==
    /\ Len(text) >= 7
    /\ text[1] = Tok("bsk2") /\ text[2] = Tok(".")
    /\ text[4] = Tok(".") /\ text[6] = Tok(".")

\* The signature field of the text is the doubly encoded signature of the
\* embedded key over the JSON text as received.
SignedAsReceived(text) ==
    /\ text[5].c = "sig" /\ text[5].n = 2
    /\ text[5].k = secret_of_pubkey(decompress(text[3].c))
    /\ text[5].m = SubSeq(text, 7, Len(text))

\* The embedded key is the expected key, or its address the expected one.
EmbeddedKeyExpected(text) ==
    \/ last.public_key # None /\ decompress(last.public_key) = decompress(text[3].c)
    \/ /\ last.public_key_hash # NoAddress
       /\ address_version_0(last.public_key_hash)
              = public_key_to_address(decompress(text[3].c))

\* The text is a signed version 2 envelope whose JSON text was replaced.
IsTampered(text) ==
    \E p \in Payloads, q \in Payloads, k \in SignerKeys :
        \E pub \in PubkeyForms(k) :
            /\ p # q
            /\ text = WithData(serialize_mutable_data(p, k, pub, FALSE), json_dumps(q))

\* C15: decoding version 2 text returns a payload only if the signature
\* verifies over the JSON text as received under the embedded key and that
\* key is the expected key (or has the expected address); an envelope whose
\* JSON text was changed decodes to a failure, not to a payload.
C15_V2Authenticity ==
    IsDecode /\ Len(last.text) >= 2 /\ last.text[1] = Tok("bsk2") /\ last.text[2] = Tok(".") =>
        /\ last.result.kind = "json" =>
              /\ IsV2Text(last.text)
              /\ SignedAsReceived(last.text)
              /\ EmbeddedKeyExpected(last.text)
              /\ last.result.val = json_loads(SubSeq(last.text, 7, Len(last.text))).val
        /\ IsTampered(last.text) => last.result = ParseNone

\* A tampered envelope was decoded against the key embedded in it.
C15_Witness ==
    /\ IsDecode
    /\ IsTampered(last.text)
    /\ last.public_key = last.text[3].c
    /\ last.result = ParseNone

IsVerify == last # Idle /\ last.op = "verify"

\* The text is a signed version 2 envelope whose signature field was
\* replaced by text that is no signature.
HasBadSignature(text) ==
    \E p \in Payloads, k \in SignerKeys, t \in BadSignatures :
        text = WithSignature(serialize_mutable_data(p, k, get_pubkey_hex(k), FALSE), t)

\* C16: a malformed signature is a failure value, never an exception:
\* verify_raw_data returns a boolean (False when the signature is not
\* base64 or not 64 bytes), and decoding a bsk2 envelope whose
\* signature field is invalid returns None.
C16_MalformedSignatureIsFailure ==
    /\ IsVerify =>
          /\ last.result \in {"True", "False"}
          /\ last.sigb64 \in {Tok("!!"), b64encode(Tok("hello"))} => last.result = "False"
    /\ IsDecode /\ HasBadSignature(last.text) => last.result = ParseNone

\* The signatures that are the base64 text of 64 bytes.
WellFormedSignature(sigb64) == sigb64.c = "sig" /\ sigb64.n = 1

\* verify_raw_data returns a boolean on every well-formed signature.
C16_HoldsOfWellFormedSignatures ==
    IsVerify /\ WellFormedSignature(last.sigb64) => last.result \in {"True", "False"}

\* ------------------------------------------------------ claims: deletes

IsDeleteImmutable == last # Idle /\ last.op = "delete_immutable"

\* The registered drivers that have the delete handler the call uses.
DeleteCapable == {h \in Range(storage_handlers) : last.drv[h] # "nocap"}

\* The driver's delete handler was called and returned.
Performed(h) ==
    /\ \E i \in DOMAIN last.calls : last.calls[i].who = h
    /\ last.drv[h] # "raise"

\* C17: delete_immutable is all or nothing: when it returns, every
\* registered driver with delete_immutable_handler has performed the
\* delete, or the result is false and no driver has deleted anything.
C17_DeleteAllOrNothing ==
    IsDeleteImmutable =>
        \/ \A h \in DeleteCapable : Performed(h)
        \/ ~last.result /\ immutable_store = last.store_before

\* C17 holds of the deletes in which no driver raises after another has
\* deleted.
C17_HoldsWithoutLateException ==
    IsDeleteImmutable /\ (last.result \/ Len(last.calls) <= 1) => C17_DeleteAllOrNothing

IsDeleteMutable == last # Idle /\ last.op = "delete_mutable"

\* The registered drivers a mutable delete is for, in registration order:
\* those with delete_mutable_handler that a non-empty whitelist names.
DeleteTargets ==
    SelectSeq(storage_handlers,
              LAMBDA h : /\ last.drv[h] # "nocap"
                         /\ last.only_use = {} \/ HandlerName(h) \in last.only_use)

\* The index of the first driver of the sequence that raises; 0 when none does.
RECURSIVE FirstRaise(_, _)
FirstRaise(targets, i) ==
    IF i > Len(targets) THEN 0
    ELSE IF last.drv[targets[i]] = "raise" THEN i
    ELSE FirstRaise(targets, i + 1)

\* The drivers called are the targets in order, up to the first that
\* raises; the result is false when one raised and true when none did.
DeleteStopsAtFirstRaise ==
    LET stop == FirstRaise(DeleteTargets, 1)
        called == [j \in DOMAIN last.calls |-> last.calls[j].who]
    IN  IF stop = 0
        THEN called = DeleteTargets /\ last.result
        ELSE called = SubSeq(DeleteTargets, 1, stop) /\ ~last.result

\* C18 as stated: delete_mutable calls delete_mutable_handler, in
\* registration order, only on the drivers that have it and that a
\* non-empty whitelist names; it returns false at the first driver that
\* raises, calling no later driver, and true when no called driver raised.
C18_DeleteMutableAsStated == IsDeleteMutable => DeleteStopsAtFirstRaise

\* C18 as amended: so it is when the private key is a single-signature
\* key; with any other key the delete returns false and calls no driver.
C18_DeleteMutableSingleSig ==
    IsDeleteMutable =>
        IF is_singlesig(last.privatekey) THEN DeleteStopsAtFirstRaise
        ELSE ~last.result /\ last.calls = <<>> /\ mutable_store = last.store_before

\* A delete under a whitelist that stopped at the second driver it called.
C18_Witness ==
    /\ IsDeleteMutable
    /\ is_singlesig(last.privatekey)
    /\ last.only_use # {}
    /\ Len(last.calls) = 2
    /\ ~last.result

\* ------------------------------------------------- claims: the registry

IsRegister == last # Idle /\ last.op = "register"

\* How often the driver occurs in the list.
Occurrences(handlers, d) == Cardinality({i \in DOMAIN handlers : handlers[i] = d})

\* C19: the registry lists each registered driver exactly once, in the
\* order of first registration: a register call of a driver already
\* present leaves the list as it was, a register call never removes or
\* reorders entries, and it returns True also for a driver that has none
\* of the methods.
C19_RegistryKeepsFirstOrder ==
    /\ \A d \in Drivers : Occurrences(storage_handlers, d) <= 1
    /\ IsRegister =>
          /\ last.result
          /\ Occurrences(storage_handlers, last.storage_impl) = 1
          /\ Len(storage_handlers) >= Len(last.handlers_before)
          /\ SubSeq(storage_handlers, 1, Len(last.handlers_before)) = last.handlers_before
          /\ Range(storage_handlers) = Range(last.handlers_before) \cup {last.storage_impl}
          /\ last.storage_impl \in Range(last.handlers_before)
                => storage_handlers = last.handlers_before
    /\ last # Idle /\ last.op = "get_storage_handlers" => last.result = storage_handlers

\* A driver with none of the methods, the second of two in the list, was
\* registered again.
C19_Witness ==
    /\ IsRegister
    /\ last.methods = {}
    /\ last.result
    /\ Len(last.handlers_before) = 2
    /\ last.storage_impl = last.handlers_before[2]
    /\ storage_handlers = last.handlers_before

IsLookup == last # Idle /\ last.op = "lookup"

\* C20: the registry holds at most one driver per name, and a lookup by
\* name returns the one driver with that name, or None when there is none.
C20_OneDriverPerName ==
    /\ \A i, j \in DOMAIN storage_handlers :
          HandlerName(storage_handlers[i]) = HandlerName(storage_handlers[j]) => i = j
    /\ IsLookup =>
          LET named == {h \in Range(storage_handlers) : HandlerName(h) = last.handler_name}
          IN  IF named = {} THEN last.result = None
              ELSE named = {last.result}

\* C20 holds of the registries whose drivers have different names.
C20_HoldsOfDistinctNames ==
    (\A i, j \in DOMAIN storage_handlers :
        HandlerName(storage_handlers[i]) = HandlerName(storage_handlers[j]) => i = j)
    => C20_OneDriverPerName

\* ------------------------------------------------ claims: announcements

IsPutAnnouncement == last # Idle /\ last.op = "put_announcement"
IsGetAnnouncement == last # Idle /\ last.op = "get_announcement"

\* A registered driver holds text under the hash asked for and returns
\* what it holds.
ServesAnnouncement(d) ==
    /\ last.env.drv[d].kind = "stored"
    /\ \E e \in immutable_store[d] : e[1] = last.announcement_hash

\* C21: put_announcement returns the chain hash of the text exactly when a
\* driver accepted the write, and None otherwise, and hands the drivers the
\* text as it is; a get_announcement of the hash that was returned gives
\* the raw text, not parsed, and never text whose chain hash is another.
C21_AnnouncementRoundTrip ==
    /\ IsPutAnnouncement =>
          LET data_hash == get_blockchain_compat_hash(last.announcement_text)
              accepted == \E h \in Range(storage_handlers) : last.drv[h] = "true"
          IN  /\ last.result = (IF accepted THEN data_hash ELSE NoneTok)
              /\ \A i \in DOMAIN last.calls :
                    /\ last.calls[i].text = last.announcement_text
                    /\ last.calls[i].key = data_hash
              /\ \A h \in Range(storage_handlers) :
                    last.drv[h] = "true" =>
                        <<data_hash, last.announcement_text>> \in immutable_store[h]
    /\ IsGetAnnouncement =>
          /\ last.result.kind # "None" =>
                /\ last.result.kind = "text"
                /\ last.result.val = last.raw
                /\ get_blockchain_compat_hash(last.raw) = last.announcement_hash
          /\ /\ put_done.result # NoneTok
             /\ last.announcement_hash = put_done.result
             /\ \E d \in Range(storage_handlers) : ServesAnnouncement(d)
             => /\ last.result.kind = "text"
                /\ \E d \in Range(storage_handlers) :
                      <<last.announcement_hash, last.result.val>> \in immutable_store[d]

\* An announcement that is JSON text was written, then read back raw from a
\* driver that holds it while another driver answered with other text.
C21_Witness ==
    /\ IsGetAnnouncement
    /\ put_done.result = get_blockchain_compat_hash(json_dumps(PayloadK1))
    /\ last.announcement_hash = put_done.result
    /\ last.result.kind = "text"
    /\ last.result.val = json_dumps(PayloadK1)
    /\ \E d \in Range(storage_handlers) : ServesAnnouncement(d)
    /\ \E d \in Range(storage_handlers) : last.env.drv[d] = DataAnswer(AnnouncementText)

\* ------------------------------------------------------ claims: signing

IsSign == last # Idle /\ last.op = "sign"

\* The s of the signature sign_raw_data returned.
SignedS == b64decode(last.result).val.s

\* C22: whatever s from 1 to the order less one the signature has, the s
\* of the signature sign returns is at most half the order (the order is
\* odd) and still between 1 and the order less one.
C22_LowS ==
    IsSign =>
        /\ SignedS * 2 <= CurveOrder
        /\ SignedS \in 1..(CurveOrder - 1)
        /\ SignedS \in {last.sig_s, CurveOrder - last.sig_s}

\* The largest s was brought down to 1.
C22_Witness ==
    /\ IsSign
    /\ last.sig_s = CurveOrder - 1
    /\ SignedS = 1

\* ------------------------------------------------------ claims: data ids

IsMakeFqDataId == last # Idle /\ last.op = "make_fq_data_id"

\* The data id is the name, a ':' and the data id, in that order.
IsNameColonDataId ==
    /\ Len(last.fq_data_id) = Len(last.name) + 1 + Len(last.data_id)
    /\ SubSeq(last.fq_data_id, 1, Len(last.name)) = last.name
    /\ last.fq_data_id[Len(last.name) + 1] = Tok(":")
    /\ SubSeq(last.fq_data_id, Len(last.name) + 2, Len(last.fq_data_id)) = last.data_id

\* C23 as stated: for every name and data id, make_fq_data_id gives name,
\* ':' and data id, and is_fq_data_id of it is true exactly when the name
\* is valid.
C23_FqDataIdAsStated ==
    IsMakeFqDataId =>
        /\ IsNameColonDataId
        /\ last.result <=> is_name_valid(last.name)

\* C23 as amended: is_fq_data_id of it is true exactly when what stands
\* before the first ':' of the name (the whole name when it has none) is
\* valid; for a name with no ':' that is when the name is valid.
C23_FqDataIdFirstPart ==
    IsMakeFqDataId =>
        LET colon == IndexOf(last.name, Tok(":"), 1)
            first == IF colon = 0 THEN last.name ELSE SubSeq(last.name, 1, colon - 1)
        IN  /\ IsNameColonDataId
            /\ last.result <=> is_name_valid(first)
            /\ colon = 0 => (last.result <=> is_name_valid(last.name))

\* A valid name with no ':' and a data id with a ':' in it made a fully
\* qualified data id.
C23_Witness ==
    /\ IsMakeFqDataId
    /\ last.name = <<Tok("alice.id")>>
    /\ last.data_id = <<Tok("profile"), Tok(":")>>
    /\ last.result

\* -------------------------------------- claims: writes without rollback

\* The index in the registry of the first driver that is required and has
\* no put handler or raises; 0 when there is none.
RECURSIVE FirstFatal(_)
FirstFatal(i) ==
    IF i > Len(storage_handlers) THEN 0
    ELSE IF /\ HandlerName(storage_handlers[i]) \in last.required
            /\ last.drv[storage_handlers[i]] \in {"nocap", "raise"}
         THEN i
         ELSE FirstFatal(i + 1)

\* The hash and the text a write of the payload files.
HashOfPayload(p) == get_data_hash(json_dumps(p))

\* C24: when a required driver has no put handler or raises,
\* put_immutable returns None at once: no driver after it in the registry
\* is contacted, and the drivers before it that accepted the write keep
\* it, so that a read of the hash after the failed write can succeed.
C24_FailsAtOnceNoRollback ==
    /\ IsPutImmutable /\ FirstFatal(1) # 0 =>
          LET stop == FirstFatal(1)
              before == SubSeq(storage_handlers, 1, stop - 1)
              fatal == storage_handlers[stop]
              contacted == SelectSeq(before, LAMBDA h : last.drv[h] # "nocap")
                           \o (IF last.drv[fatal] = "raise" THEN <<fatal>> ELSE <<>>)
          IN  /\ last.result = NoneTok
              /\ [j \in DOMAIN last.calls |-> last.calls[j].who] = contacted
              /\ \A h \in Range(before) :
                    last.drv[h] = "true" =>
                        <<HashOfPayload(last.data_json), json_dumps(last.data_json)>>
                            \in immutable_store[h]
    /\ /\ IsGetImmutable
       /\ put_done.result = NoneTok /\ put_done.payload # {}
       /\ last.data_hash = HashOfPayload(put_done.payload)
       /\ \E d \in Range(storage_handlers) : KeepsAndReturns(d, last.data_hash)
       => last.result.kind = "json" /\ last.result.val = put_done.payload

\* The write failed at a required driver that raised after another driver
\* had accepted it.
C24_FailedAfterAccepted ==
    /\ IsPutImmutable
    /\ FirstFatal(1) = 2
    /\ last.drv[storage_handlers[1]] = "true"
    /\ last.drv[storage_handlers[2]] = "raise"
    /\ last.result = NoneTok
    /\ <<HashOfPayload(last.data_json), json_dumps(last.data_json)>>
           \in immutable_store[storage_handlers[1]]

\* After a write that reported failure, a read of the hash succeeded.
C24_Witness ==
    /\ IsGetImmutable
    /\ put_done.result = NoneTok /\ put_done.payload # {}
    /\ last.data_hash = HashOfPayload(put_done.payload)
    /\ last.result.kind = "json"
    /\ last.result.val = put_done.payload

\* ------------------------------------------ claims: order of the drivers

\* The registry in every order.
Reorderings(handlers) ==
    {p \in [DOMAIN handlers -> Range(handlers)] : Range(p) = Range(handlers)}

\* C25: what put_immutable and put_mutable return does not depend on the
\* order of the drivers: with the same drivers answering the same way and
\* the same required and use_only, the write returns the same over every
\* reordering of the registry.
C25_ResultIgnoresOrder ==
    /\ IsPutImmutable =>
          \A p \in Reorderings(storage_handlers) :
              put_immutable_data(p, <<last.data_json>>, NoneTok, <<>>, last.required,
                                 last.drv, immutable_store).result = last.result
    /\ IsPutMutable =>
          \A p \in Reorderings(storage_handlers) :
              put_mutable_data(p, last.fq_data_id, last.data_json, last.privatekey_hex,
                               last.profile, last.required, last.use_only, last.drv,
                               last.store_before).result = last.result

\* A write of immutable data that one driver accepted before the other,
\* required, raised: in the other order no driver accepts before the
\* failure.
C25_Witness ==
    /\ IsPutImmutable
    /\ Len(storage_handlers) = 2
    /\ last.drv[storage_handlers[1]] = "true"
    /\ last.drv[storage_handlers[2]] = "raise"
    /\ HandlerName(storage_handlers[2]) \in last.required
    /\ HandlerName(storage_handlers[1]) \notin last.required
    /\ Len(last.calls) = 2
    /\ last.result = NoneTok

\* The same for a write of mutable data, with the second driver required
\* and returning false.
C25_MutableReordered ==
    /\ IsPutMutable
    /\ Len(storage_handlers) = 2
    /\ last.drv[storage_handlers[1]] = "true"
    /\ last.drv[storage_handlers[2]] = "false"
    /\ HandlerName(storage_handlers[2]) \in last.required
    /\ Len(last.calls) = 2
    /\ last.result = None

\* ------------------------------------------- claims: read your writes

\* A read that follows a write of mutable data.
IsGetAfterPut == last.op = "get_mutable" /\ "put" \in DOMAIN last

\* C26: after put_mutable returned true, the get_mutable that follows it
\* with the same data id and the public key of the writer returns the
\* payload written, also when an earlier write left another payload under
\* the data id and a driver that is not required declined the newer one.
C26_ReadYourWrites ==
    IsGetAfterPut /\ last.put.result = "True" =>
        last.result.kind = "json" /\ last.result.val = last.put.data_json

\* ------------------------------------- claims: required drivers accepted

\* C27: whenever put_mutable returns true, every registered driver named
\* in required was called with the envelope and returned true, whatever
\* required and use_only are.
C27_RequiredAccepted ==
    IsPutMutable /\ last.result = "True" =>
        \A h \in Range(storage_handlers) :
            HandlerName(h) \in last.required =>
                /\ last.drv[h] = "true"
                /\ \E i \in DOMAIN last.calls :
                      /\ last.calls[i].who = h
                      /\ last.calls[i].key = last.fq_data_id
                      /\ last.calls[i].text =
                            serialize_mutable_data(last.data_json, last.privatekey_hex,
                                                   get_pubkey_hex(last.privatekey_hex),
                                                   last.profile)

\* ------------------------------- claims: what the delete handlers return

\* A delete of either kind with a single-signature key.
IsSignedDelete ==
    \/ IsDeleteImmutable /\ is_singlesig(last.privkey)
    \/ IsDeleteMutable /\ is_singlesig(last.privatekey)

\* Some handler the delete called raised.
CalledHandlerRaised == \E i \in DOMAIN last.calls : last.drv[last.calls[i].who] = "raise"

\* C28: delete_immutable and delete_mutable do not look at what a delete
\* handler returns: with a single-signature key they return true whenever
\* no called handler raised, also when every handler returned false, when
\* no registered driver has the delete handler, and when the registry is
\* empty.
C28_DeleteIgnoresReturnValue ==
    IsSignedDelete =>
        /\ last.result <=> ~CalledHandlerRaised
        /\ (\A h \in Range(storage_handlers) : last.drv[h] \in {"nocap", "false"})
              => last.result

\* Two drivers were called, both returned false, and the delete of
\* immutable data returned true.
C28_Witness ==
    /\ IsDeleteImmutable /\ is_singlesig(last.privkey)
    /\ Len(storage_handlers) = 2 /\ Len(last.calls) = 2
    /\ \A h \in Range(storage_handlers) : last.drv[h] = "false"
    /\ last.result

\* The same for a delete of mutable data; a delete with no driver that has
\* the handler; a delete over the empty registry.
C28_MutableAllFalse ==
    /\ IsDeleteMutable /\ is_singlesig(last.privatekey)
    /\ Len(last.calls) = 2
    /\ \A h \in Range(storage_handlers) : last.drv[h] = "false"
    /\ last.result
C28_NoCapability ==
    /\ IsSignedDelete /\ Len(storage_handlers) = 2
    /\ \A h \in Range(storage_handlers) : last.drv[h] = "nocap"
    /\ last.result
C28_EmptyRegistry == IsSignedDelete /\ storage_handlers = <<>> /\ last.result

\* ------------------------------------- claims: the registry is only read

\* The operations of the router that read, write and delete data.
RouterOps ==
    {"get_immutable", "get_mutable", "put_immutable", "put_mutable",
     "delete_immutable", "delete_mutable"}

\* C29: no get, put or delete changes the driver registry: after any of
\* them, with or without a whitelist of drivers, the registry holds the
\* same drivers in the same order as before.
C29_RegistryUnchanged ==
    [][last'.op \in RouterOps => storage_handlers' = storage_handlers]_vars

\* A read of mutable data under a whitelist that names both registered
\* drivers, in the other order, has returned.
C29_Witness ==
    /\ last.op = "get_mutable"
    /\ Len(storage_handlers) = 2
    /\ last.drivers.given
    /\ Len(last.calls) = 2
    /\ last.calls[1].who = storage_handlers[2]
    /\ last.calls[2].who = storage_handlers[1]

\* --------------------------------------------------- claims: the wallet

IsGetNextKeypair == last.op = "get_next_keypair"

\* The indexes below count whose child address has no pending transaction
\* and is not underfunded.
ReadyIndexes ==
    {index \in 0..(last.count - 1) :
        /\ get_child_address(index) \notin last.pending
        /\ get_child_address(index) \notin last.underfunded}

\* C30: get_next_keypair(count) returns the child address of the lowest
\* index among 0..count-1 that has no pending transaction and is not
\* underfunded, with the child private key of that same index; it returns
\* (None, None) when there is no such address.
C30_NextKeypairIsLowestReady ==
    IsGetNextKeypair =>
        IF ReadyIndexes = {} THEN last.result = NoKeypair
        ELSE LET lowest == CHOOSE index \in ReadyIndexes :
                               \A other \in ReadyIndexes : index <= other
             IN  /\ last.result.found
                 /\ last.result.payment_address = get_child_address(lowest)
                 /\ last.result.hex_privkey = get_child_privkey(lowest)
                 /\ get_address_from_privkey(last.result.hex_privkey)
                       = last.result.payment_address

\* The first address has a pending transaction, the second is underfunded,
\* and the third is returned with its key.
C30_Witness ==
    /\ IsGetNextKeypair
    /\ last.count = 3
    /\ get_child_address(0) \in last.pending
    /\ get_child_address(1) \in last.underfunded /\ get_child_address(1) \notin last.pending
    /\ last.result.found
    /\ last.result.hex_privkey = get_child_privkey(2)

\* No address is ready, and (None, None) is returned.
C30_NoneReady ==
    IsGetNextKeypair /\ last.count = 2 /\ ReadyIndexes = {} /\ ~last.result.found

====
